---- MODULE Spec2Model ----
(***************************************************************************)
(* A state-machine model of the superagent orchestration core:             *)
(*   - the two Resource Pool implementations (the ResourceManager class    *)
(*     private to GodNode.ts and the ResourceManager singleton of          *)
(*     ResourceManager.ts),                                                *)
(*   - the God Node request pipeline (processUserRequest) with several     *)
(*     requests in flight, the Orchestrator's executeTask and the agent    *)
(*     runtime's evolve step,                                              *)
(*   - the Task Decomposer's readiness and aggregate-status functions,     *)
(*   - the God Node's task-event handlers (SpecMetrics) and the Evolution  *)
(*     Manager's evolveAgent (SpecEvolve), each driven by its callers; no  *)
(*     step of the request pipeline reads GodNode.metrics, and the         *)
(*     Orchestrator in use never calls the Evolution Manager,              *)
(*   - one agent runtime driven through its own methods (SpecAgent, and    *)
(*     SpecMemory with the clock advancing), the Orchestrator's createAgent *)
(*     and destroyAgent with the God Node's counter (SpecOrch), the Agent   *)
(*     Registry (SpecRegistry) and the Knowledge Graph of part_002          *)
(*     (SpecGraph),                                                         *)
(*   - a caller's scheduling loop over getNextSubtasks (SpecReady), the    *)
(*     request pipeline under fair scheduling of its continuations         *)
(*     (SpecLive) and with callers that read the agents and the metrics    *)
(*     before each call (SpecObserved).                                    *)
(*                                                                         *)
(* Memory and storage amounts are counted in MiB: every amount the source  *)
(* writes for them is a multiple of 1024 * 1024 bytes.                     *)
(***************************************************************************)
EXTENDS Integers, Sequences, FiniteSets, TLC

VARIABLES
  target,        \* which pool object the API-level call sequence drives
  resources,     \* GodNode.ts ResourceManager.resources
  currentUsage,  \* ResourceManager.ts ResourceManager.currentUsage
  call,          \* the last pool call made through the API: op, requirements, result
  task,          \* TaskDecomposer.ts: the Task the decomposer's caller holds
  dcall,         \* the last Task Decomposer call: op and what it returned
  sched,         \* a caller's scheduling loop over the task: the subtasks it holds, the rounds so far
  pc,            \* GodNode.processUserRequest: where each tracked call stands
  alloc,         \* ... its resourcesAllocated
  released,      \* ... how many times its finally block has released
  result,        \* ... what the call returned or threw
  inflight,      \* untracked processUserRequest calls suspended in their external call
  tpc,           \* AgentOrchestrator.executeTask: where each call stands
  thist,         \* every value task.status has taken, in order (the last is current)
  tagents,       \* task.agents
  tevents,       \* the task events the Orchestrator has emitted for the task, in order
  tevolve,       \* the evolution entry points executeTask has invoked for the task, in order
  tid,           \* task.id of each task handed to executeTask
  activeTasks,   \* AgentOrchestrator.activeTasks: task.id -> the task registered under it
  agent,         \* BaseAgent: the runtimes (status, currentTask, metrics.successRate, strategies)
  activeAgents,  \* AgentOrchestrator.activeAgents: config.id -> the runtime registered under it
  metrics,       \* GodNode.metrics: totalTasks, successRate, and the task events handled
  ev,            \* EvolutionManager.evolveAgent: the call in progress and its result
  runtime,       \* BaseAgent: one runtime followed through its own methods (state, memory)
  acall,         \* the calls made on that runtime: the method, where it stands, what it did
  now,           \* the clock that runtime reads (new Date()), in days
  agents,        \* AgentRegistry.agents: name -> { agent, metadata }
  rcall,         \* the last AgentRegistry call: op, arguments, whether it threw
  nodes,         \* KnowledgeGraph (part_002): id -> data
  relationships, \* KnowledgeGraph (part_002): id -> the ids its relationships point to
  kcall,         \* the last KnowledgeGraph call and what it found around its node
  orphaned,      \* the tasks whose primary agent was destroyed while their external call was pending
  seen           \* what the caller of each processUserRequest found just before its call

poolVars == <<target, resources, currentUsage, call>>
decompVars == <<task, dcall, sched>>
requestVars == <<pc, alloc, released, result, inflight, activeAgents>>
taskVars == <<tpc, thist, tagents, tevents, tevolve, tid, activeTasks>>
managerVars == <<metrics, ev>>
runtimeVars == <<runtime, acall, now>>
registryVars == <<agents, rcall>>
graphVars == <<nodes, relationships, kcall>>
componentVars == <<runtimeVars, registryVars, graphVars, orphaned, seen>>

vars == <<target, resources, currentUsage, call, task, dcall, sched,
          pc, alloc, released, result, inflight, tpc, thist, tagents, tevents,
          tevolve, tid, activeTasks, agent, activeAgents, metrics, ev, runtime, acall, now,
          agents, rcall, nodes, relationships, kcall, orphaned, seen>>

----------------------------------------------------------------------------
(* Bounds of the model *)

\* pool-API amounts are multiples of limit \div Grain, up to Grain + 1 of them
Grain == 2
\* subtasks of the decomposed task
MaxSubtasks == 3
\* processUserRequest calls (and executeTask calls, and agents) followed step by step
MaxRequests == 2
\* task events the God Node's handlers are followed through
MaxTaskEvents == 6
\* calls followed on the one agent runtime driven through its own methods
MaxCalls == 2
\* days the agent runtime's clock is followed through
MaxDays == 2

----------------------------------------------------------------------------
(* Resource Pool: shared definitions *)

Dims == {"tokens", "computeUnits", "memory", "storage"}

ZeroUsage == [d \in Dims |-> 0]

\* GodNode.ts: the limits of the pool private to the God Node (MiB for memory, storage)
limits ==
  [tokens |-> 1000000, computeUnits |-> 100, memory |-> 1024, storage |-> 1024 * 10]

\* ResourceManager.ts: the limits of the singleton pool (MiB for memory, storage)
maxResources ==
  [tokens |-> 1000000, computeUnits |-> 1000, memory |-> 1024, storage |-> 100]

Max(a, b) == IF a >= b THEN a ELSE b

Unit(lim, d) == lim[d] \div Grain

\* the key sets of the requirement values drawn: no key, one key, all four
KeySets == {{}} \cup {{d} : d \in Dims} \cup {Dims}

\* releases through the ResourceManager.ts API are followed down to one unit
\* below zero
DebtFloor(d) == -Unit(maxResources, d)

\* the requirement values the API-level calls are drawn from: k units on the
\* keys S (a Partial<ResourceUsage>: only the keys of S are present)
KeyedAmounts(lim) ==
  { [d \in S |-> k * Unit(lim, d)] : S \in KeySets, k \in 0..(Grain + 1) }

\* a complete ResourceRequirements value: every dimension present
FullAmounts(lim) ==
  { [d \in Dims |-> IF d \in S THEN k * Unit(lim, d) ELSE 0] :
      S \in KeySets, k \in 0..(Grain + 1) }

\* requirements[key] || 0
ValueOr0(req, d) == IF d \in DOMAIN req THEN req[d] ELSE 0

----------------------------------------------------------------------------
(* GodNode.ts: class ResourceManager (the pool the God Node uses) *)

\* a check loop that compares the usage alone, leaving the requested value out
GN_CheckPasses_NoValue(usage, req) ==
  \A key \in DOMAIN req : ~(usage[key] > limits[key])

\* the check loop of allocateResources: TRUE iff no key exceeds its limit
GN_CheckPasses(usage, req) ==
  \A key \in DOMAIN req : ~((usage[key] + ValueOr0(req, key)) > limits[key])

\* the allocation loop of allocateResources
GN_Commit(usage, req) ==
  [d \in Dims |-> IF d \in DOMAIN req THEN usage[d] + ValueOr0(req, d) ELSE usage[d]]

\* an allocateResources that increments key by key while it checks, and so
\* keeps the increments made before the key that fails
GN_allocateResources_Partial(usage, req) ==
  IF GN_CheckPasses(usage, req)
    THEN <<TRUE, GN_Commit(usage, req)>>
    ELSE <<FALSE,
           [d \in Dims |->
              IF d \in DOMAIN req /\ ~((usage[d] + ValueOr0(req, d)) > limits[d])
                THEN usage[d] + ValueOr0(req, d) ELSE usage[d]]>>

\* allocateResources: the pair <<returned value, usage afterwards>>
GN_allocateResources(usage, req) ==
  IF GN_CheckPasses(usage, req)
    THEN <<TRUE, GN_Commit(usage, req)>>
    ELSE <<FALSE, usage>>

\* a releaseResources that skips the storage key
GN_releaseResources_SkipStorage(usage, req) ==
  [d \in Dims |->
     IF d \in DOMAIN req /\ d # "storage"
       THEN Max(0, usage[d] - ValueOr0(req, d)) ELSE usage[d]]

\* releaseResources: usage afterwards
GN_releaseResources(usage, req) ==
  [d \in Dims |->
     IF d \in DOMAIN req THEN Max(0, usage[d] - ValueOr0(req, d)) ELSE usage[d]]

----------------------------------------------------------------------------
(* ResourceManager.ts: class ResourceManager (singleton) *)

RM_Insufficient(usage, req) ==
  \/ usage.tokens + req.tokens > maxResources.tokens
  \/ usage.computeUnits + req.computeUnits > maxResources.computeUnits
  \/ usage.memory + req.memory > maxResources.memory
  \/ usage.storage + req.storage > maxResources.storage

RM_allocateResources(usage, req) ==
  IF RM_Insufficient(usage, req)
    THEN <<FALSE, usage>>
    ELSE <<TRUE,
           [tokens |-> usage.tokens + req.tokens,
            computeUnits |-> usage.computeUnits + req.computeUnits,
            memory |-> usage.memory + req.memory,
            storage |-> usage.storage + req.storage]>>

RM_releaseResources(usage, req) ==
  [tokens |-> usage.tokens - req.tokens,
   computeUnits |-> usage.computeUnits - req.computeUnits,
   memory |-> usage.memory - req.memory,
   storage |-> usage.storage - req.storage]

----------------------------------------------------------------------------
(* TaskDecomposer.ts: getNextSubtasks and updateSubtaskStatus *)

Statuses == {"pending", "in_progress", "completed", "failed"}

SubtaskIds == 1..MaxSubtasks

\* an id that no subtask of the task carries
NoSuchId == MaxSubtasks + 1

\* task.subtasks.find((st) => st.id === id): the index of the first subtask
\* with that id, 0 when there is none (undefined)
Find(subtasks, id) ==
  IF \E i \in 1..Len(subtasks) : subtasks[i].id = id
    THEN CHOOSE i \in 1..Len(subtasks) :
           /\ subtasks[i].id = id
           /\ \A j \in 1..(i - 1) : subtasks[j].id # id
    ELSE 0

\* a dependency test that lets an id that finds no sibling pass
DependencyCompleted_MissingPasses(subtasks, depId) ==
  LET i == Find(subtasks, depId) IN
    IF i = 0 THEN TRUE ELSE subtasks[i].status = "completed"

\* dependency?.status === 'completed'
DependencyCompleted(subtasks, depId) ==
  LET i == Find(subtasks, depId) IN
    IF i = 0 THEN FALSE ELSE subtasks[i].status = "completed"

\* a filter predicate that forgets the status test
IsReady_AnyStatus(subtasks, subtask) ==
  \A depId \in subtask.dependencies : DependencyCompleted(subtasks, depId)

\* the filter predicate of getNextSubtasks; a dependency list is modelled by
\* the set of its elements, of which the code asks `every`
IsReady(subtasks, subtask) ==
  IF subtask.status # "pending"
    THEN FALSE
    ELSE \A depId \in subtask.dependencies : DependencyCompleted(subtasks, depId)

\* getNextSubtasks(task): the ids of the subtasks returned, in task order
getNextSubtasks(t) ==
  LET ready == SelectSeq(t.subtasks, LAMBDA st : IsReady(t.subtasks, st))
  IN  [i \in 1..Len(ready) |-> ready[i].id]

\* a recomputation that tests in_progress before failed
OverallStatus_InProgressFirst(subtasks, old) ==
  IF \A i \in 1..Len(subtasks) : subtasks[i].status = "completed" THEN "completed"
  ELSE IF \E i \in 1..Len(subtasks) : subtasks[i].status = "in_progress" THEN "in_progress"
  ELSE IF \E i \in 1..Len(subtasks) : subtasks[i].status = "failed" THEN "failed"
  ELSE old

\* the recomputation of the overall status at the end of updateSubtaskStatus
OverallStatus(subtasks, old) ==
  IF \A i \in 1..Len(subtasks) : subtasks[i].status = "completed" THEN "completed"
  ELSE IF \E i \in 1..Len(subtasks) : subtasks[i].status = "failed" THEN "failed"
  ELSE IF \E i \in 1..Len(subtasks) : subtasks[i].status = "in_progress" THEN "in_progress"
  ELSE old

\* an update that sets the subtask's status and leaves the task's status alone
updateSubtaskStatus_NoRecompute(t, subtaskId, status) ==
  LET i == Find(t.subtasks, subtaskId)
  IN  [subtasks |-> [t.subtasks EXCEPT ![i].status = status], status |-> t.status]

\* updateSubtaskStatus(task, subtaskId, status) for a subtask that exists:
\* the task returned
updateSubtaskStatus(t, subtaskId, status) ==
  LET i == Find(t.subtasks, subtaskId)
      subtasks == [t.subtasks EXCEPT ![i].status = status]
  IN  [subtasks |-> subtasks, status |-> OverallStatus(subtasks, t.status)]

\* the dependency lists a decomposition hands back: none, the previous
\* sibling, or all earlier siblings ...
CleanDeps(i) == {{}, {i - 1} \cap SubtaskIds, 1..(i - 1)}

\* ... and what a malformed decomposition adds to one of them: the subtask
\* itself, the next sibling (a cycle when that sibling depends back), or an
\* id that names no sibling
BadDeps(i) == {{i}, {i + 1} \cap SubtaskIds, {NoSuchId}} \ {{}}

CleanGraphs ==
  { g \in [SubtaskIds -> SUBSET (1..NoSuchId)] : \A i \in SubtaskIds : g[i] \in CleanDeps(i) }

DependencyGraphs ==
  CleanGraphs \cup
  UNION { { [g EXCEPT ![j] = g[j] \cup b] : b \in BadDeps(j) } :
            <<g, j>> \in CleanGraphs \X SubtaskIds }

\* decomposeTask: every subtask starts pending, and so does the task
DecomposedTask(g) ==
  [subtasks |-> [i \in SubtaskIds |->
                   [id |-> i, dependencies |-> g[i], status |-> "pending"]],
   status |-> "pending"]

NoDecompCall == [op |-> "none", ret |-> <<>>, threw |-> FALSE]

\* a scheduling loop that has not called getNextSubtasks yet
NoRounds == [held |-> <<>>, rounds |-> <<>>]

\* no task under decomposition
DecompIdle ==
  /\ task = [subtasks |-> <<>>, status |-> "pending"]
  /\ dcall = NoDecompCall
  /\ sched = NoRounds

----------------------------------------------------------------------------
(* GodNode.ts, AgentOrchestrator (part_000) and BaseAgent.ts: state *)

\* the processUserRequest calls followed step by step; call r builds task r,
\* and in the request pipeline ensureCapableAgents creates agent r for it
Requests == 1..MaxRequests
Tasks == Requests
Agents == Requests

\* estimateResourceRequirements (MiB for memory, storage)
estimateResourceRequirements ==
  [tokens |-> 1000, computeUnits |-> 1, memory |-> 1, storage |-> 10]

\* metrics.successRate and config.evolutionThreshold are counted in thousandths
DefaultEvolutionThreshold == 800
InitialSuccessRate == 1000

\* 1.0 after three task_failed events on the agent: 0.9, 0.81, 0.729
handleTaskFailureRate(successRate) == (successRate * 9) \div 10

DegradedSuccessRate ==
  handleTaskFailureRate(handleTaskFailureRate(handleTaskFailureRate(InitialSuccessRate)))

\* state.currentTask when the field is absent
NoTask == 0

\* config.id when no runtime has been constructed
NoId == 0

\* an agent slot no runtime has been constructed for
NoAgent ==
  [exists |-> FALSE, id |-> NoId, status |-> "idle", currentTask |-> NoTask,
   successRate |-> InitialSuccessRate,
   evolutionThreshold |-> DefaultEvolutionThreshold, strategies |-> 0]

\* new BaseAgent(config) with the configuration ensureCapableAgents builds:
\* idle, no current task, successRate 1.0, no evolution strategy registered
NewBaseAgent(id) ==
  [exists |-> TRUE, id |-> id, status |-> "idle", currentTask |-> NoTask,
   successRate |-> InitialSuccessRate,
   evolutionThreshold |-> DefaultEvolutionThreshold, strategies |-> 0]

\* `agent-${Date.now()}`: the clock never runs backwards, so the id of a new
\* runtime is the id of the runtime created last (the same millisecond) or a
\* later one; ids are modelled by their rank among the ids handed out
AgentIds == 1..MaxRequests

LatestId(ags) == Max(NoId, CHOOSE m \in {ags[a].id : a \in DOMAIN ags} :
                              \A a \in DOMAIN ags : ags[a].id <= m)

NextAgentIds(ags) == {LatestId(ags), LatestId(ags) + 1} \cap AgentIds

\* findCapableAgent(capability): null, whatever the active-agent map holds
NoCapableAgent == 0

findCapableAgent(active) == NoCapableAgent

\* BaseAgent.shouldEvolve
shouldEvolve(a) == a.successRate < a.evolutionThreshold

\* the size of the Orchestrator's active-agent map
ActiveAgentCount(active) == Cardinality({id \in AgentIds : active[id] # NoCapableAgent})

\* what a caller reads before it calls processUserRequest: the size of the
\* active-agent map (getAgents) and the activeAgents counter (getMetrics)
Observed(active, m) == [agents |-> ActiveAgentCount(active), activeAgents |-> m.activeAgents]

NothingSeen == [r \in Requests |-> [agents |-> 0, activeAgents |-> 0]]

\* no processUserRequest call has been made
RequestsIdle ==
  /\ pc = [r \in Requests |-> "idle"]
  /\ alloc = [r \in Requests |-> "pending"]
  /\ released = [r \in Requests |-> 0]
  /\ result = [r \in Requests |-> "none"]
  /\ inflight = 0
  /\ activeAgents = [id \in AgentIds |-> NoCapableAgent]

\* task.id: only the equality of ids matters to the active-task map, so the id
\* of task t is named t when no earlier task carries it, and otherwise is the
\* id of a task handed to executeTask before (`task-${Date.now()}` built in
\* the same millisecond)
TaskIds == Tasks

NextTaskIds(t) == {t} \cup {tid[u] : u \in {v \in Tasks : tpc[v] # "idle"}}

\* no executeTask call has been made
TasksIdle ==
  /\ tpc = [t \in Tasks |-> "idle"]
  /\ thist = [t \in Tasks |-> <<>>]
  /\ tagents = [t \in Tasks |-> <<>>]
  /\ tevents = [t \in Tasks |-> <<>>]
  /\ tevolve = [t \in Tasks |-> <<>>]
  /\ tid = [t \in Tasks |-> NoId]
  /\ activeTasks = [id \in TaskIds |-> NoTask]

PipelineIdle ==
  /\ RequestsIdle
  /\ TasksIdle
  /\ agent = [a \in Agents |-> NoAgent]

pipelineVars == <<requestVars, taskVars, agent>>

----------------------------------------------------------------------------
(* GodNode.ts: the system metrics and their task-event handlers *)

\* GodNode.metrics.successRate is kept as an exact decimal: the rate times
\* 10^MaxTaskEvents, which the division by ten of each handler leaves whole
\* for MaxTaskEvents events
RECURSIVE PowerOfTen(_)
PowerOfTen(n) == IF n = 0 THEN 1 ELSE 10 * PowerOfTen(n - 1)

RateOne == PowerOfTen(MaxTaskEvents)

\* the metrics the constructor sets: activeAgents 0, totalTasks 0, successRate 1.0; events
\* lists the task events handled so far
InitialMetrics ==
  [activeAgents |-> 0, totalTasks |-> 0, successRate |-> RateOne, events |-> <<>>]

\* handleAgentCreated: activeAgents++
handleAgentCreated(m) == [m EXCEPT !.activeAgents = @ + 1]

\* handleAgentDestroyed: activeAgents--
handleAgentDestroyed(m) == [m EXCEPT !.activeAgents = @ - 1]

\* a completion handler that counts the task and leaves the rate alone
handleTaskCompletion_KeepsRate(m) ==
  [activeAgents |-> m.activeAgents,
   totalTasks |-> m.totalTasks + 1,
   successRate |-> m.successRate,
   events |-> Append(m.events, "task_completed")]

\* handleTaskCompletion: totalTasks++, successRate = (successRate * 9 + 1) / 10
handleTaskCompletion(m) ==
  [activeAgents |-> m.activeAgents,
   totalTasks |-> m.totalTasks + 1,
   successRate |-> (m.successRate * 9 + RateOne) \div 10,
   events |-> Append(m.events, "task_completed")]

\* a failure handler whose body is put off until after the emit has returned
handleTaskFailure_Deferred(m) == m

\* handleTaskFailure: totalTasks++, successRate = (successRate * 9) / 10
handleTaskFailure(m) ==
  [activeAgents |-> m.activeAgents,
   totalTasks |-> m.totalTasks + 1,
   successRate |-> (m.successRate * 9) \div 10,
   events |-> Append(m.events, "task_failed")]

MetricsIdle == metrics = InitialMetrics

----------------------------------------------------------------------------
(* part_001: EvolutionManager.evolveAgent and DefaultEvolutionStrategy *)

\* the metrics of the agents handed to evolveAgent: successRate and
\* userSatisfaction in thousandths, averageResponseTime in milliseconds
EvolveMetrics ==
  [successRate : {DegradedSuccessRate, DefaultEvolutionThreshold, 950, InitialSuccessRate},
   userSatisfaction : {600, 700, 900},
   averageResponseTime : {500, 2500}]

\* the strategy names callers pass: the default one, one a caller may have
\* registered with registerStrategy, and one nobody registered
StrategyNames == {"default", "custom", "unknown"}

\* a default strategy that also evolves on a slow response time
DefaultShouldEvolve_ResponseTime(m) ==
  m.successRate < 800 \/ m.userSatisfaction < 700 \/ m.averageResponseTime > 2000

\* DefaultEvolutionStrategy.shouldEvolve
DefaultShouldEvolve(m) == m.successRate < 800 \/ m.userSatisfaction < 700

\* the result of an evolveAgent call that did nothing
NoOpResult ==
  [success |-> TRUE, improvements |-> <<>>, newCapabilities |-> <<>>, error |-> "none",
   propagated |-> FALSE]

\* the result built from the evolution plan generateEvolutionPlan returns
PlanResult ==
  [success |-> TRUE,
   improvements |-> <<"Implement better error handling", "Optimize resource usage">>,
   newCapabilities |-> <<"Advanced error recovery", "Resource optimization">>,
   error |-> "none", propagated |-> FALSE]

\* a catch block that rethrows the error of a lookup that found no strategy
CatchResult_RethrowsNotFound(message) ==
  [success |-> FALSE, improvements |-> <<>>, newCapabilities |-> <<>>, error |-> message,
   propagated |-> (message = "strategy not found")]

\* the catch block of evolveAgent: the error becomes a result, nothing is
\* rethrown
CatchResult(message) ==
  [success |-> FALSE, improvements |-> <<>>, newCapabilities |-> <<>>, error |-> message,
   propagated |-> FALSE]

\* no evolveAgent call has been made
NoEvolveCall ==
  [pc |-> "idle", name |-> "default", failedAt |-> "none", result |-> NoOpResult,
   planCalls |-> 0, hookCalls |-> 0, checked |-> "none"]

EvolveIdle ==
  /\ ev = [call |-> NoEvolveCall, registered |-> FALSE,
           metrics |-> [successRate |-> InitialSuccessRate, userSatisfaction |-> 900,
                        averageResponseTime |-> 500]]

ManagerIdle ==
  /\ MetricsIdle
  /\ EvolveIdle

----------------------------------------------------------------------------
(* BaseAgent.ts: one runtime followed through processConversation,          *)
(* generateResponse, recordExperience, learn and evolve                     *)

\* the calls made on the runtime; call c carries conversation c and records
\* Experience c
Calls == 1..MaxCalls

\* the days the clock is followed through
Days == 0..MaxDays

\* config.memoryRetention of the runtime followed, in days
memoryRetention == 1

\* the learning strategies a subclass may have registered, in registration order
LearningStrategyLists == {<<>>, <<"first", "second">>}

\* the evolution strategies a subclass may have registered, in registration
\* order: shouldEvolve is what strategy.shouldEvolve(metrics) answers for the
\* runtime's metrics
EvolutionStrategies == [name : {"first", "second"}, shouldEvolve : BOOLEAN]

EvolutionStrategyLists ==
  {<<>>, <<[name |-> "first", shouldEvolve |-> TRUE]>>}
    \cup {<<s, u>> : <<s, u>> \in
            {p \in EvolutionStrategies \X EvolutionStrategies :
               p[1].name = "first" /\ p[2].name = "second" /\ p[2].shouldEvolve}}

\* metrics.averageResponseTime is kept as an exact binary fraction: the time
\* in days times 2^MaxCalls, which the halving of each generateResponse leaves
\* whole for MaxCalls calls
RECURSIVE PowerOfTwo(_)
PowerOfTwo(n) == IF n = 0 THEN 1 ELSE 2 * PowerOfTwo(n - 1)

ResponseTimeUnit == PowerOfTwo(MaxCalls)

\* new BaseAgent(config) of a subclass: idle, empty episodic memory,
\* averageResponseTime 0
NewRuntime(ls, es, sr) ==
  [status |-> "idle", currentTask |-> NoTask, successRate |-> sr,
   averageResponseTime |-> 0,
   evolutionThreshold |-> DefaultEvolutionThreshold, episodic |-> {},
   learningStrategies |-> ls, evolutionStrategies |-> es]

\* a call slot no call has been made in; experience holds the Experience the
\* call has handed to recordExperience, if any, and startTime the Date.now()
\* generateResponse read on entry
NoAgentCall ==
  [op |-> "none", pc |-> "idle", cursor |-> 0, applied |-> <<>>, emitted |-> <<>>,
   failedAt |-> "none", experience |-> {}, startTime |-> 0]

\* the Experience generateResponse records: a fresh id, timestamp new Date(),
\* outcome.success true
SuccessExperience(id, at) == [id |-> id, timestamp |-> at, success |-> TRUE]

\* an Experience with outcome.success false
FailedExperience(id, at) == [id |-> id, timestamp |-> at, success |-> FALSE]

\* a learn without the finally block: the status stays learning on failure
learnThrows_StaysLearning(rt, c) ==
  <<rt,
    [c EXCEPT !.pc = IF c.op = "learn" THEN "threw" ELSE "learnThrew",
              !.cursor = 0, !.failedAt = "learning",
              !.emitted = Append(@, "error")]>>

\* learn, strategy.apply having rejected: the catch block emits error and
\* rethrows, the finally block sets the status idle
learnThrows(rt, c) ==
  <<[rt EXCEPT !.status = "idle"],
    [c EXCEPT !.pc = IF c.op = "learn" THEN "threw" ELSE "learnThrew",
              !.cursor = 0, !.failedAt = "learning",
              !.emitted = Append(@, "error")]>>

\* the loop of learn from strategy i on: strategy.apply is awaited; past the
\* last strategy learning_completed is emitted and the finally block sets the
\* status idle
learnFrom(rt, c, i) ==
  IF i > Len(rt.learningStrategies)
    THEN <<[rt EXCEPT !.status = "idle"],
           [c EXCEPT !.pc = IF c.op = "learn" THEN "returned" ELSE "learned",
                     !.cursor = 0,
                     !.emitted = Append(@, "learning_completed")]>>
    ELSE <<rt,
           [c EXCEPT !.pc = "applying", !.cursor = i,
                     !.applied = Append(@, rt.learningStrategies[i])]>>

\* learn(experience) up to its first suspension: status learning,
\* learning_started emitted, then the loop
learnEnters(rt, c) ==
  learnFrom([rt EXCEPT !.status = "learning"],
            [c EXCEPT !.emitted = Append(@, "learning_started")], 1)

\* a loop of evolve that applies every registered strategy
RECURSIVE evolveFrom_AppliesAll(_, _, _)
evolveFrom_AppliesAll(rt, c, i) ==
  IF i > Len(rt.evolutionStrategies)
    THEN <<[rt EXCEPT !.status = "idle"],
           [c EXCEPT !.pc = "returned", !.cursor = 0,
                     !.emitted = Append(@, "evolution_completed")]>>
    ELSE <<rt,
           [c EXCEPT !.pc = "evolving", !.cursor = i,
                     !.applied = Append(@, rt.evolutionStrategies[i].name)]>>

\* the loop of evolve from strategy i on: a strategy whose shouldEvolve
\* answers true is applied and awaited, the others are passed over; past the
\* last strategy evolution_completed is emitted and the finally block sets the
\* status idle
RECURSIVE evolveFrom(_, _, _)
evolveFrom(rt, c, i) ==
  IF i > Len(rt.evolutionStrategies)
    THEN <<[rt EXCEPT !.status = "idle"],
           [c EXCEPT !.pc = "returned", !.cursor = 0,
                     !.emitted = Append(@, "evolution_completed")]>>
    ELSE IF rt.evolutionStrategies[i].shouldEvolve
           THEN <<rt,
                  [c EXCEPT !.pc = "evolving", !.cursor = i,
                            !.applied = Append(@, rt.evolutionStrategies[i].name)]>>
           ELSE evolveFrom(rt, c, i + 1)

\* evolve() up to its first suspension: nothing unless shouldEvolve();
\* otherwise status evolving, evolution_started emitted, then the loop
evolveEnters(rt, c) ==
  IF shouldEvolve(rt)
    THEN evolveFrom([rt EXCEPT !.status = "evolving"],
                    [c EXCEPT !.emitted = Append(@, "evolution_started")], 1)
    ELSE <<rt, [c EXCEPT !.pc = "returned"]>>

\* evolve, strategy.evolve having rejected: error emitted, status idle, rethrown
evolveThrows(rt, c) ==
  <<[rt EXCEPT !.status = "idle"],
    [c EXCEPT !.pc = "threw", !.cursor = 0, !.failedAt = "evolution",
              !.emitted = Append(@, "error")]>>

\* a cleanup that keeps every memory
cleanupOldMemories_KeepsAll(rt, at) == rt

\* cleanupOldMemories at time at: cutoff = at - memoryRetention days; every
\* Experience with timestamp < cutoff is deleted
cleanupOldMemories(rt, at) ==
  [rt EXCEPT !.episodic = {e \in @ : ~(e.timestamp < at - memoryRetention)}]

\* recordExperience(experience) up to its first suspension: the Experience is
\* stored under its id, then learn(experience) is entered and awaited
recordExperienceEnters(rt, c, experience) ==
  learnEnters([rt EXCEPT !.episodic =
                 {e \in @ : e.id # experience.id} \cup {experience}],
              [c EXCEPT !.experience = {experience}])

\* a generateResponse that overwrites the average with the latest latency
generateResponseReturns_LatestLatency(rt, c, at) ==
  [rt EXCEPT !.averageResponseTime = (at - c.startTime) * ResponseTimeUnit]

\* generateResponse resumes after recordExperience resolved:
\* averageResponseTime = (averageResponseTime + (Date.now() - startTime)) / 2
generateResponseReturns(rt, c, at) ==
  [rt EXCEPT !.averageResponseTime = (@ + (at - c.startTime) * ResponseTimeUnit) \div 2]

\* the runtime as constructed with no call made on it
RuntimeIdle ==
  /\ runtime = NewRuntime(<<>>, <<>>, InitialSuccessRate)
  /\ acall = [c \in Calls |-> NoAgentCall]
  /\ now = 0

----------------------------------------------------------------------------
(* AgentRegistry.ts: the name-keyed table of agent blueprints *)

RegistryNames == {"reflection", "conversation", "analysis"}

\* the agent classes registered
Blueprints == {"BaseAgent", "ReflectionAgent"}

\* the metadata registered, by its capability list
Metadata == {<<"reflection", "analysis">>, <<"basic_conversation">>}

\* this.agents.has(name)
IsRegistered(table, name) == name \in DOMAIN table

\* a registerAgent that replaces the entry of a name already registered
registerAgent_Overwrites(table, name, agentClass, metadata) ==
  <<FALSE,
    [n \in DOMAIN table \cup {name} |->
       IF n = name THEN [agent |-> agentClass, metadata |-> metadata] ELSE table[n]]>>

\* registerAgent(name, agentClass, metadata): throws when the name is
\* registered, otherwise sets the entry; <<threw, the table after>>
registerAgent(table, name, agentClass, metadata) ==
  IF IsRegistered(table, name)
    THEN <<TRUE, table>>
    ELSE <<FALSE,
           [n \in DOMAIN table \cup {name} |->
              IF n = name THEN [agent |-> agentClass, metadata |-> metadata]
                          ELSE table[n]]>>

\* the empty Map of the constructor
EmptyMap == [n \in {} |-> 0]

NoRegistryCall ==
  [op |-> "none", name |-> "reflection", agent |-> "BaseAgent",
   metadata |-> <<"basic_conversation">>, threw |-> FALSE]

RegistryIdle ==
  /\ agents = EmptyMap
  /\ rcall = NoRegistryCall

----------------------------------------------------------------------------
(* part_002: KnowledgeGraph (nodes and relationships) *)

NodeIds == {"x", "y", "z"}

NodeData == {"concept", "fact"}

\* map.set(key, value)
MapSet(map, key, value) ==
  [k \in DOMAIN map \cup {key} |-> IF k = key THEN value ELSE map[k]]

\* map.delete(key)
MapDelete(map, key) == [k \in DOMAIN map \ {key} |-> map[k]]

\* addNode(id, data): the node is set and its relationships start empty
addNode(ns, rels, id, data) == <<MapSet(ns, id, data), MapSet(rels, id, {})>>

\* addRelationship(fromId, toId): added when fromId has a relationship set
addRelationship(ns, rels, fromId, toId) ==
  IF fromId \in DOMAIN rels
    THEN <<ns, MapSet(rels, fromId, rels[fromId] \cup {toId})>>
    ELSE <<ns, rels>>

\* a removeNode that leaves the relationships pointing to the node in place
removeNode_KeepsInbound(ns, rels, id) == <<MapDelete(ns, id), MapDelete(rels, id)>>

\* removeNode(id): the node and its relationship set are deleted, then id is
\* deleted from every remaining relationship set
removeNode(ns, rels, id) ==
  <<MapDelete(ns, id),
    [k \in DOMAIN rels \ {id} |-> rels[k] \ {id}]>>

NoGraphCall == [op |-> "none", id |-> "x", from |-> {}, to |-> {}]

GraphIdle ==
  /\ nodes = EmptyMap
  /\ relationships = EmptyMap
  /\ kcall = NoGraphCall

ComponentsIdle ==
  /\ RuntimeIdle
  /\ RegistryIdle
  /\ GraphIdle
  /\ orphaned = {}
  /\ seen = NothingSeen

----------------------------------------------------------------------------
(* The pool API driven by an arbitrary call sequence *)

NoCall == [op |-> "none", req |-> ZeroUsage, ret |-> TRUE, before |-> ZeroUsage,
           matched |-> FALSE]

\* a release that directly follows a successful allocate of the same
\* requirements keeps that allocate's baseline in its call record
Matches(req) == call.op = "allocate" /\ call.ret /\ call.req = req

ReleaseRecord(req) ==
  [op |-> "release", req |-> req, ret |-> TRUE,
   before |-> IF Matches(req) THEN call.before ELSE ZeroUsage,
   matched |-> Matches(req)]

AllocateRecord(req, ret, usage) ==
  [op |-> "allocate", req |-> req, ret |-> ret, before |-> usage, matched |-> FALSE]

\* the pools as constructed, with no API-level call sequence driving them
PoolIdle ==
  /\ target = "GodNode"
  /\ resources = ZeroUsage
  /\ currentUsage = ZeroUsage
  /\ call = NoCall

PoolInit ==
  /\ target \in {"GodNode", "ResourceManager"}
  /\ resources = ZeroUsage
  /\ currentUsage = ZeroUsage
  /\ call = NoCall
  /\ DecompIdle
  /\ PipelineIdle
  /\ ManagerIdle
  /\ ComponentsIdle

GN_Allocate(req) ==
  /\ target = "GodNode"
  /\ LET r == GN_allocateResources(resources, req) IN
       /\ resources' = r[2]
       /\ call' = AllocateRecord(req, r[1], resources)
  /\ UNCHANGED <<target, currentUsage, decompVars, pipelineVars, managerVars, componentVars>>

GN_Release(req) ==
  /\ target = "GodNode"
  /\ resources' = GN_releaseResources(resources, req)
  /\ call' = ReleaseRecord(req)
  /\ UNCHANGED <<target, currentUsage, decompVars, pipelineVars, managerVars, componentVars>>

RM_Allocate(req) ==
  /\ target = "ResourceManager"
  /\ LET r == RM_allocateResources(currentUsage, req) IN
       /\ currentUsage' = r[2]
       /\ call' = AllocateRecord(req, r[1], currentUsage)
  /\ UNCHANGED <<target, resources, decompVars, pipelineVars, managerVars, componentVars>>

RM_Release(req) ==
  /\ target = "ResourceManager"
  /\ \A d \in Dims : currentUsage[d] - req[d] >= DebtFloor(d)
  /\ currentUsage' = RM_releaseResources(currentUsage, req)
  /\ call' = ReleaseRecord(req)
  /\ UNCHANGED <<target, resources, decompVars, pipelineVars, managerVars, componentVars>>

PoolNext ==
  \/ \E req \in KeyedAmounts(limits) : GN_Allocate(req)
  \/ \E req \in KeyedAmounts(limits) : GN_Release(req)
  \/ \E req \in FullAmounts(maxResources) : RM_Allocate(req)
  \/ \E req \in FullAmounts(maxResources) : RM_Release(req)

SpecPool == PoolInit /\ [][PoolNext]_vars

----------------------------------------------------------------------------
(* The Task Decomposer driven by an arbitrary call sequence on one task *)

DecompInit ==
  /\ PoolIdle
  /\ PipelineIdle
  /\ ManagerIdle
  /\ ComponentsIdle
  /\ \E g \in DependencyGraphs : task = DecomposedTask(g)
  /\ dcall = NoDecompCall
  /\ sched = NoRounds

\* a call of getNextSubtasks(task)
GetNextSubtasks ==
  /\ dcall' = [op |-> "getNextSubtasks", ret |-> getNextSubtasks(task), threw |-> FALSE]
  /\ UNCHANGED <<task, sched, poolVars, pipelineVars, managerVars, componentVars>>

\* a call task = updateSubtaskStatus(task, subtaskId, status)
UpdateSubtaskStatus(subtaskId, status) ==
  /\ Find(task.subtasks, subtaskId) # 0
  /\ task' = updateSubtaskStatus(task, subtaskId, status)
  /\ dcall' = [op |-> "updateSubtaskStatus", ret |-> <<subtaskId>>, threw |-> FALSE]
  /\ UNCHANGED <<sched, poolVars, pipelineVars, managerVars, componentVars>>

\* updateSubtaskStatus with an id the task does not hold: throws "not found"
UpdateSubtaskStatusNotFound(subtaskId) ==
  /\ Find(task.subtasks, subtaskId) = 0
  /\ dcall' = [op |-> "updateSubtaskStatus", ret |-> <<subtaskId>>, threw |-> TRUE]
  /\ UNCHANGED <<task, sched, poolVars, pipelineVars, managerVars, componentVars>>

DecompNext ==
  \/ GetNextSubtasks
  \/ \E id \in SubtaskIds, st \in Statuses : UpdateSubtaskStatus(id, st)
  \/ UpdateSubtaskStatusNotFound(NoSuchId)

SpecDecomp == DecompInit /\ [][DecompNext]_vars

----------------------------------------------------------------------------
(* AgentOrchestrator.executeTask (part_000, lines 258-348) with the agent    *)
(* runtime's processConversation and evolve (BaseAgent.ts).  A step runs    *)
(* from one suspension of the call to the next.                             *)

\* createAgent(config): the runtime is constructed, registered in the
\* active-agent map under config.id (replacing what the key held) and
\* agent_created is emitted, which the God Node's handler counts; slot names
\* the runtime object
createAgent(slot, id) ==
  /\ agent' = [agent EXCEPT ![slot] = NewBaseAgent(id)]
  /\ activeAgents' = [activeAgents EXCEPT ![id] = slot]
  /\ metrics' = handleAgentCreated(metrics)

\* destroyAgent(agentId): when the map holds the id, the entry is deleted and
\* agent_destroyed is emitted, which the God Node's handler counts; the
\* runtime object and the calls in progress on it are not touched
destroyAgent(id) ==
  IF activeAgents[id] # NoCapableAgent
    THEN /\ activeAgents' = [activeAgents EXCEPT ![id] = NoCapableAgent]
         /\ metrics' = handleAgentDestroyed(metrics)
    ELSE UNCHANGED <<activeAgents, metrics>>

\* task.agents[0]
primaryAgent(t) == tagents[t][1]

\* an executor choice that invokes every agent of the list
InvokedAgents_All(ags) == {ags[i] : i \in 1..Len(ags)}

\* the agents executeTask invokes processConversation on: task.agents[0],
\* none when the list is empty
InvokedAgents(ags) == IF ags = <<>> THEN {} ELSE {ags[1]}

\* processConversation, on entry: status busy, currentTask stamped with the
\* conversation's id (the task's id)
processConversationEnters(a, t) == [a EXCEPT !.status = "busy", !.currentTask = t]

\* a return path that leaves the currentTask record in place
processConversationReturns_KeepsTask(a) == [a EXCEPT !.status = "idle"]

\* processConversation, generateResponse having returned: status idle,
\* currentTask deleted
processConversationReturns(a) == [a EXCEPT !.status = "idle", !.currentTask = NoTask]

\* processConversation, generateResponse having thrown: status error, the
\* currentTask record left as it is
processConversationThrows(a) == [a EXCEPT !.status = "error"]

\* a task marked failed, task_completed notwithstanding, when the evolution
\* check after it throws
StatusAfterEvolveThrows(history) == Append(history, "failed")

EventsAfterEvolveThrows(events) == Append(events, "task_failed")

\* executeTask(task) up to its first suspension: the task (built pending) is
\* marked in_progress and task_started is emitted; without a primary agent it
\* throws on the spot and the catch block marks it failed and emits
\* task_failed, which the God Node's handler runs on within the emit; otherwise
\* processConversation is entered on the primary agent and the external call
\* is made
ExecuteTaskBegins(t, ags) ==
  /\ \E id \in NextTaskIds(t) :
        /\ tid' = [tid EXCEPT ![t] = id]
        /\ activeTasks' = [activeTasks EXCEPT ![id] = t]
  /\ tagents' = [tagents EXCEPT ![t] = ags]
  /\ agent' = [a \in Agents |->
                 IF a \in InvokedAgents(ags)
                   THEN processConversationEnters(agent[a], t) ELSE agent[a]]
  /\ IF ags = <<>>
       THEN /\ thist' = [thist EXCEPT ![t] = <<"pending", "in_progress", "failed">>]
            /\ tevents' = [tevents EXCEPT ![t] = <<"task_started", "task_failed">>]
            /\ metrics' = handleTaskFailure(metrics)
            /\ tpc' = [tpc EXCEPT ![t] = "threw"]
       ELSE /\ thist' = [thist EXCEPT ![t] = <<"pending", "in_progress">>]
            /\ tevents' = [tevents EXCEPT ![t] = <<"task_started">>]
            /\ metrics' = metrics
            /\ tpc' = [tpc EXCEPT ![t] = "awaitAgent"]
  /\ UNCHANGED tevolve

\* the external call fails: generateResponse rethrows and processConversation
\* rejects with the agent set to error
AgentCallFails(t) ==
  /\ tpc[t] = "awaitAgent"
  /\ agent' = [agent EXCEPT ![primaryAgent(t)] = processConversationThrows(@)]
  /\ tpc' = [tpc EXCEPT ![t] = "agentThrew"]
  /\ UNCHANGED <<thist, tevents, tevolve, tagents, tid, activeTasks, poolVars, decompVars, requestVars, managerVars, componentVars>>

\* executeTask resumes in its catch block: the task is marked failed,
\* task_failed is emitted with the error message (the God Node's handler runs
\* within the emit), the error is rethrown
TaskFails(t) ==
  /\ tpc[t] = "agentThrew"
  /\ thist' = [thist EXCEPT ![t] = Append(@, "failed")]
  /\ tevents' = [tevents EXCEPT ![t] = Append(@, "task_failed")]
  /\ metrics' = handleTaskFailure(metrics)
  /\ tpc' = [tpc EXCEPT ![t] = "threw"]
  /\ UNCHANGED <<agent, tevolve, tagents, tid, activeTasks, poolVars, decompVars, requestVars, ev, componentVars>>

\* the external call returns: processConversation resolves with the agent idle
AgentCallReturns(t) ==
  /\ tpc[t] = "awaitAgent"
  /\ agent' = [agent EXCEPT ![primaryAgent(t)] = processConversationReturns(@)]
  /\ tpc' = [tpc EXCEPT ![t] = "agentReturned"]
  /\ UNCHANGED <<thist, tevents, tevolve, tagents, tid, activeTasks, poolVars, decompVars, requestVars, managerVars, componentVars>>

\* executeTask resumes after the await: the task is marked completed and
\* task_completed is emitted (the God Node's handler runs within the emit);
\* then checkAndEvolveAgent: when successRate <
\* evolutionThreshold it calls agent.evolve(), which sets the agent to
\* evolving and, with a strategy registered whose shouldEvolve answers true
\* (applies), suspends in strategy.evolve; with none it sets the agent idle
\* again and executeTask returns the result
TaskCompletes(t, applies) ==
  /\ tpc[t] = "agentReturned"
  /\ thist' = [thist EXCEPT ![t] = Append(@, "completed")]
  /\ tevents' = [tevents EXCEPT ![t] = Append(@, "task_completed")]
  /\ metrics' = handleTaskCompletion(metrics)
  /\ LET a == primaryAgent(t) IN
       /\ tevolve' = [tevolve EXCEPT ![t] =
                        IF shouldEvolve(agent[a]) THEN Append(@, "agent.evolve") ELSE @]
       /\ IF shouldEvolve(agent[a]) /\ agent[a].strategies > 0 /\ applies
            THEN /\ agent' = [agent EXCEPT ![a].status = "evolving"]
                 /\ tpc' = [tpc EXCEPT ![t] = "awaitEvolve"]
            ELSE /\ agent' = [agent EXCEPT ![a].status =
                                 IF shouldEvolve(agent[a]) THEN "idle" ELSE @]
                 /\ tpc' = [tpc EXCEPT ![t] = "returned"]
  /\ UNCHANGED <<tagents, tid, activeTasks, poolVars, decompVars, requestVars, ev, componentVars>>

\* strategy.evolve resolves: evolve() sets the agent idle, executeTask returns
StrategyEvolveReturns(t) ==
  /\ tpc[t] = "awaitEvolve"
  /\ agent' = [agent EXCEPT ![primaryAgent(t)].status = "idle"]
  /\ tpc' = [tpc EXCEPT ![t] = "returned"]
  /\ UNCHANGED <<thist, tevents, tevolve, tagents, tid, activeTasks, poolVars, decompVars, requestVars, managerVars, componentVars>>

\* strategy.evolve rejects: evolve() sets the agent idle in its finally block
\* and rethrows; the await of checkAndEvolveAgent stands inside the try block
\* of executeTask, so its catch block runs
StrategyEvolveThrows(t) ==
  /\ tpc[t] = "awaitEvolve"
  /\ agent' = [agent EXCEPT ![primaryAgent(t)].status = "idle"]
  /\ thist' = [thist EXCEPT ![t] = StatusAfterEvolveThrows(@)]
  /\ tevents' = [tevents EXCEPT ![t] = EventsAfterEvolveThrows(@)]
  /\ metrics' = handleTaskFailure(metrics)
  /\ tpc' = [tpc EXCEPT ![t] = "threw"]
  /\ UNCHANGED <<tevolve, tagents, tid, activeTasks, poolVars, decompVars, requestVars, ev, componentVars>>

----------------------------------------------------------------------------
(* The Orchestrator driven through executeTask by any caller, on agents of  *)
(* any configuration                                                        *)

\* the runtimes a caller may hold: plain runtimes as the God Node builds them,
\* runtimes whose successRate has sunk below the threshold, and subclasses
\* that registered an evolution strategy
AgentStates ==
  { [exists |-> TRUE, id |-> id, status |-> "idle", currentTask |-> NoTask,
     successRate |-> sr,
     evolutionThreshold |-> DefaultEvolutionThreshold, strategies |-> n] :
      id \in AgentIds, sr \in {InitialSuccessRate, DegradedSuccessRate}, n \in {0, 1} }

\* the agent lists of the tasks submitted: none, one, two different agents
AgentLists ==
  {<<>>} \cup {<<a>> : a \in Agents}
         \cup {<<a, b>> : <<a, b>> \in {p \in Agents \X Agents : p[1] # p[2]}}

\* the runtimes held when the calls begin: each under its own id, at most one
\* of them with a successRate below its threshold
AgentFleets ==
  { ags \in [Agents -> AgentStates] :
      /\ \A a \in Agents : ags[a].id = a
      /\ \A a, b \in Agents :
            (shouldEvolve(ags[a]) /\ shouldEvolve(ags[b])) => a = b
      /\ \A a \in Agents : ags[a].strategies > 0 => shouldEvolve(ags[a]) }

ExecInit ==
  /\ PoolIdle
  /\ DecompIdle
  /\ RequestsIdle
  /\ TasksIdle
  /\ ManagerIdle
  /\ ComponentsIdle
  /\ agent \in AgentFleets

\* a call executeTask(task) from outside the God Node
ExecuteTask(t, ags) ==
  /\ tpc[t] = "idle"
  /\ ExecuteTaskBegins(t, ags)
  /\ UNCHANGED <<poolVars, decompVars, requestVars, ev, componentVars>>

ExecNext ==
  \/ \E t \in Tasks, ags \in AgentLists : ExecuteTask(t, ags)
  \/ \E t \in Tasks : AgentCallFails(t)
  \/ \E t \in Tasks : TaskFails(t)
  \/ \E t \in Tasks : AgentCallReturns(t)
  \/ \E t \in Tasks, applies \in BOOLEAN : TaskCompletes(t, applies)
  \/ \E t \in Tasks : StrategyEvolveReturns(t)
  \/ \E t \in Tasks : StrategyEvolveThrows(t)

SpecExec == ExecInit /\ [][ExecNext]_vars

----------------------------------------------------------------------------
(* GodNode.processUserRequest (GodNode.ts, lines 158-201) with several      *)
(* calls in flight, as the socket server makes them (part_003, lines 93-99).*)
(* A step runs from one await of the call to the next.                      *)

\* if (!resourcesAllocated) throw ...
AllocationFailed_Never(granted) == FALSE

AllocationFailed(granted) == granted = "refused"

\* a release that only the path on which executeTask returned reaches
ReleaseInFinally_OnSuccessOnly(usage, outcome) ==
  IF outcome = "threw"
    THEN usage
    ELSE GN_releaseResources(usage, estimateResourceRequirements)

\* the finally block: releaseResources(resourceRequirements), whether
\* executeTask returned or threw
ReleaseInFinally(usage, outcome) ==
  GN_releaseResources(usage, estimateResourceRequirements)

\* an allocation whose limit check reads the usage as it stood before the
\* allocations of the calls that overlap it were committed
AllocateForRequest_StaleCheck(r) ==
  LET others == {q \in Requests \ {r} : pc[q] = "allocated" /\ alloc[q] = "granted"}
      stale == [d \in Dims |->
                  resources[d] - Cardinality(others) * estimateResourceRequirements[d]]
  IN  IF GN_CheckPasses(stale, estimateResourceRequirements)
        THEN <<TRUE, GN_Commit(resources, estimateResourceRequirements)>>
        ELSE <<FALSE, resources>>

\* await this.resourceManager.allocateResources(resourceRequirements): the
\* method has no await of its own, so its check and its increments run in
\* one step of the caller
AllocateForRequest(r) ==
  GN_allocateResources(resources, estimateResourceRequirements)

\* the call is made: analyzeRequestCapabilities is awaited
Begin(r) ==
  /\ pc[r] = "idle"
  /\ pc' = [pc EXCEPT ![r] = "analyzing"]
  /\ UNCHANGED <<alloc, released, result, inflight, activeAgents, taskVars, agent, poolVars, decompVars, managerVars, componentVars>>

\* a caller that reads getAgents and getMetrics and then makes the call
ObservedBegin(r) ==
  /\ pc[r] = "idle"
  /\ pc' = [pc EXCEPT ![r] = "analyzing"]
  /\ seen' = [seen EXCEPT ![r] = Observed(activeAgents, metrics)]
  /\ UNCHANGED <<alloc, released, result, inflight, activeAgents, taskVars, agent, poolVars,
                 decompVars, managerVars, runtimeVars, registryVars, graphVars, orphaned>>

\* ensureCapableAgents: findCapableAgent finds none, createAgent builds a runtime
EnsureCapableAgents(r) ==
  /\ pc[r] = "analyzing"
  /\ IF findCapableAgent(activeAgents) # NoCapableAgent
       THEN UNCHANGED <<agent, activeAgents, metrics>>
       ELSE \E id \in NextAgentIds(agent) : createAgent(r, id)
  /\ pc' = [pc EXCEPT ![r] = "acquired"]
  /\ UNCHANGED <<alloc, released, result, inflight, taskVars, poolVars, decompVars, ev, componentVars>>

\* step 3: estimateResourceRequirements and allocateResources
Allocate(r) ==
  /\ pc[r] = "acquired"
  /\ LET a == AllocateForRequest(r) IN
       /\ resources' = a[2]
       /\ alloc' = [alloc EXCEPT ![r] = IF a[1] THEN "granted" ELSE "refused"]
  /\ pc' = [pc EXCEPT ![r] = "allocated"]
  /\ UNCHANGED <<released, result, inflight, activeAgents, taskVars, agent,
                 target, currentUsage, call, decompVars, managerVars, componentVars>>

\* the allocation failed: throw 'Insufficient resources to process request'
\* outside the inner try, so its finally block does not run
Reject(r) ==
  /\ pc[r] = "allocated"
  /\ AllocationFailed(alloc[r])
  /\ pc' = [pc EXCEPT ![r] = "threw"]
  /\ result' = [result EXCEPT ![r] = "Insufficient resources to process request"]
  /\ UNCHANGED <<alloc, released, inflight, activeAgents, taskVars, agent, poolVars, decompVars, managerVars, componentVars>>

\* a pipeline that starts the task before it has asked the pool
Execute_BeforeAllocation(r) ==
  /\ pc[r] = "acquired"
  /\ ExecuteTaskBegins(r, <<r>>)
  /\ pc' = [pc EXCEPT ![r] = "executing"]
  /\ UNCHANGED <<alloc, released, result, inflight, activeAgents, poolVars, decompVars, ev, componentVars>>

\* step 4: executeTask on a task built pending with the agents acquired
Execute(r) ==
  /\ pc[r] = "allocated"
  /\ ~AllocationFailed(alloc[r])
  /\ ExecuteTaskBegins(r, <<r>>)
  /\ pc' = [pc EXCEPT ![r] = "executing"]
  /\ UNCHANGED <<alloc, released, result, inflight, activeAgents, poolVars, decompVars, ev, componentVars>>

\* a pipeline that gives up on a task still running and releases
Release_OnTimeout(r) ==
  /\ pc[r] = "executing"
  /\ resources' = ReleaseInFinally(resources, tpc[r])
  /\ released' = [released EXCEPT ![r] = @ + 1]
  /\ pc' = [pc EXCEPT ![r] = "released"]
  /\ UNCHANGED <<alloc, result, inflight, activeAgents, taskVars, agent,
                 target, currentUsage, call, decompVars, managerVars, componentVars>>

\* executeTask has returned (learnFromExecution follows, a no-op) or thrown:
\* the finally block releases
Release(r) ==
  /\ pc[r] = "executing"
  /\ tpc[r] \in {"returned", "threw"}
  /\ resources' = ReleaseInFinally(resources, tpc[r])
  /\ released' = [released EXCEPT ![r] = @ + 1]
  /\ pc' = [pc EXCEPT ![r] = "released"]
  /\ UNCHANGED <<alloc, result, inflight, activeAgents, taskVars, agent,
                 target, currentUsage, call, decompVars, managerVars, componentVars>>

\* a pipeline that settles only when the task returned a result
Complete_OnResultOnly(r) ==
  /\ pc[r] = "released"
  /\ tpc[r] = "returned"
  /\ pc' = [pc EXCEPT ![r] = "returned"]
  /\ result' = [result EXCEPT ![r] = "result"]
  /\ UNCHANGED <<alloc, released, inflight, activeAgents, taskVars, agent, poolVars, decompVars, managerVars, componentVars>>

\* the call returns the task's result, or rethrows the task's error
Complete(r) ==
  /\ pc[r] = "released"
  /\ pc' = [pc EXCEPT ![r] = IF tpc[r] = "returned" THEN "returned" ELSE "threw"]
  /\ result' = [result EXCEPT ![r] = IF tpc[r] = "returned" THEN "result" ELSE "task error"]
  /\ UNCHANGED <<alloc, released, inflight, activeAgents, taskVars, agent, poolVars, decompVars, managerVars, componentVars>>

\* one more call, not followed step by step, is admitted and suspends in its
\* external call holding its allocation
OtherRequestAdmitted ==
  /\ LET a == GN_allocateResources(resources, estimateResourceRequirements) IN
       /\ a[1]
       /\ resources' = a[2]
  /\ inflight' = inflight + 1
  /\ UNCHANGED <<pc, alloc, released, result, activeAgents, taskVars, agent,
                 target, currentUsage, call, decompVars, managerVars, componentVars>>

\* the external call of one of them ends and its finally block releases
OtherRequestFinished ==
  /\ inflight > 0
  /\ resources' = GN_releaseResources(resources, estimateResourceRequirements)
  /\ inflight' = inflight - 1
  /\ UNCHANGED <<pc, alloc, released, result, activeAgents, taskVars, agent,
                 target, currentUsage, call, decompVars, managerVars, componentVars>>

Init ==
  /\ PoolIdle
  /\ DecompIdle
  /\ PipelineIdle
  /\ ManagerIdle
  /\ ComponentsIdle

Next ==
  \/ \E r \in Requests : Begin(r)
  \/ \E r \in Requests : EnsureCapableAgents(r)
  \/ \E r \in Requests : Allocate(r)
  \/ \E r \in Requests : Reject(r)
  \/ \E r \in Requests : Execute(r)
  \/ \E t \in Tasks : AgentCallFails(t)
  \/ \E t \in Tasks : TaskFails(t)
  \/ \E t \in Tasks : AgentCallReturns(t)
  \/ \E t \in Tasks : TaskCompletes(t, TRUE)
  \/ \E r \in Requests : Release(r)
  \/ \E r \in Requests : Complete(r)
  \/ OtherRequestAdmitted
  \/ OtherRequestFinished

Spec == Init /\ [][Next]_vars

\* the same pipeline, every caller reading the agents and the metrics before
\* its call
ObservedNext ==
  \/ \E r \in Requests : ObservedBegin(r)
  \/ \E r \in Requests : EnsureCapableAgents(r)
  \/ \E r \in Requests : Allocate(r)
  \/ \E r \in Requests : Reject(r)
  \/ \E r \in Requests : Execute(r)
  \/ \E t \in Tasks : AgentCallFails(t)
  \/ \E t \in Tasks : TaskFails(t)
  \/ \E t \in Tasks : AgentCallReturns(t)
  \/ \E t \in Tasks : TaskCompletes(t, TRUE)
  \/ \E r \in Requests : Release(r)
  \/ \E r \in Requests : Complete(r)
  \/ OtherRequestAdmitted
  \/ OtherRequestFinished

SpecObserved == Init /\ [][ObservedNext]_vars

----------------------------------------------------------------------------
(* Resource Pool claims, checked under SpecPool *)

\* the usage and the limits of the pool the call sequence drives
Usage == IF target = "GodNode" THEN resources ELSE currentUsage
Limit == IF target = "GodNode" THEN limits ELSE maxResources

\* the claims' own reading of a requirement: an absent dimension asks for 0
Asked(req, d) == IF d \in DOMAIN req THEN req[d] ELSE 0

\* usage[d] + requirements[d] > limit[d] for at least one dimension d
ExceedsSomewhere(usage, req) ==
  \E d \in Dims : usage[d] + Asked(req, d) > Limit[d]

\* C1: after every sequence of allocate and release calls from zero usage,
\* usage is at most the limit in each of the four dimensions, in both pools.
C1_UsageWithinLimits ==
  \A d \in Dims : resources[d] <= limits[d] /\ currentUsage[d] <= maxResources[d]

\* C1 witness: an allocate was rejected while a dimension sits exactly at its limit
C1_Witness ==
  /\ target = "GodNode"
  /\ call.op = "allocate" /\ ~call.ret
  /\ \E d \in Dims : resources[d] = limits[d]
  /\ \E d \in Dims : resources[d] < limits[d]

\* C2: allocate is all-or-nothing: when some dimension would exceed its limit
\* it returns false and leaves all four dimensions as they were, otherwise it
\* returns true and every dimension has grown by exactly its requirement.
C2_AllOrNothing ==
  call.op = "allocate" =>
    IF ExceedsSomewhere(call.before, call.req)
      THEN ~call.ret /\ Usage = call.before
      ELSE call.ret /\ \A d \in Dims : Usage[d] = call.before[d] + Asked(call.req, d)

\* C2 witness: a rejected allocate whose requirement fits one of its
\* dimensions and not another, on a pool already in use
C2_Witness ==
  /\ call.op = "allocate" /\ ~call.ret
  /\ DOMAIN call.req = Dims
  /\ \E d \in Dims : call.req[d] > 0 /\ call.before[d] + call.req[d] <= Limit[d]
  /\ \E d \in Dims : call.before[d] + call.req[d] > Limit[d]

\* C3: a release(r) directly after an allocate(r) that returned true puts
\* every dimension back to the value it had before the allocate.
C3_ReleaseRestoresBaseline ==
  (call.op = "release" /\ call.matched) => Usage = call.before

\* C3 witness: such a pair on a pool whose baseline was not zero, for a
\* requirement that asks for something in all four dimensions
C3_Witness ==
  /\ call.op = "release" /\ call.matched
  /\ \A d \in Dims : Asked(call.req, d) > 0
  /\ \E d \in Dims : call.before[d] > 0
  /\ Usage = call.before

\* C4: release clamps at zero: after any sequence of allocate and release
\* calls, including releases of more than is allocated, every usage
\* dimension is at least zero, in both pools.
C4_UsageNeverNegative ==
  \A d \in Dims : resources[d] >= 0 /\ currentUsage[d] >= 0


----------------------------------------------------------------------------
(* Task Decomposer claims, checked under SpecDecomp *)

Range(seq) == {seq[i] : i \in 1..Len(seq)}

StatusOf(t, id) == t.subtasks[id].status

\* the subtasks that are pending and all of whose listed dependencies are
\* sibling subtasks with status completed
PendingWithCompletedDeps(t) ==
  { st \in Range(t.subtasks) :
      /\ st.status = "pending"
      /\ \A dep \in st.dependencies :
            \E sib \in Range(t.subtasks) : sib.id = dep /\ sib.status = "completed" }

\* C9: getNextSubtasks(task) returns exactly the pending subtasks all of whose
\* listed dependencies are sibling subtasks with status completed, each once,
\* computed from the statuses at the time of the call, and changes no status.
C9_NextSubtasksExact ==
  [][dcall'.op = "getNextSubtasks" =>
       /\ task' = task
       /\ Range(dcall'.ret) = {st.id : st \in PendingWithCompletedDeps(task)}
       /\ Len(dcall'.ret) = Cardinality(PendingWithCompletedDeps(task))]_vars

\* C9 witness: a call that returned a subtask whose dependency is completed
\* and left out a pending subtask whose dependency is not
C9_Witness ==
  /\ dcall.op = "getNextSubtasks"
  /\ \E id \in Range(dcall.ret) : task.subtasks[id].dependencies # {}
  /\ \E id \in SubtaskIds \ Range(dcall.ret) :
        /\ StatusOf(task, id) = "pending"
        /\ \E dep \in task.subtasks[id].dependencies \cap SubtaskIds :
              StatusOf(task, dep) # "completed"

AllCompleted(t) == \A st \in Range(t.subtasks) : st.status = "completed"
SomeFailed(t) == \E st \in Range(t.subtasks) : st.status = "failed"
SomeInProgress(t) == \E st \in Range(t.subtasks) : st.status = "in_progress"

\* C10: after updateSubtaskStatus the task's status is completed if all
\* subtasks are completed; otherwise failed if some subtask is failed, even
\* with others in_progress; otherwise in_progress if some subtask is in_progress.
C10_AggregatePrecedence ==
  (dcall.op = "updateSubtaskStatus" /\ ~dcall.threw) =>
    /\ AllCompleted(task) => task.status = "completed"
    /\ (~AllCompleted(task) /\ SomeFailed(task)) => task.status = "failed"
    /\ (~AllCompleted(task) /\ ~SomeFailed(task) /\ SomeInProgress(task))
          => task.status = "in_progress"

\* C10 witness: subtasks completed, failed and in_progress side by side after
\* an update, and the task failed
C10_Witness ==
  /\ dcall.op = "updateSubtaskStatus" /\ ~dcall.threw
  /\ \E a, b, c \in SubtaskIds :
        /\ StatusOf(task, a) = "completed"
        /\ StatusOf(task, b) = "failed"
        /\ StatusOf(task, c) = "in_progress"
  /\ task.status = "failed"

----------------------------------------------------------------------------
(* Claims about the request pipeline *)

\* the calls followed step by step that hold an allocation
Holders ==
  {r \in Requests : alloc[r] = "granted" /\ pc[r] \in {"allocated", "executing"}}

\* the calls whose processUserRequest has returned or thrown
Settled == {r \in Requests : pc[r] \in {"returned", "threw"}}

\* the usage the allocations of the given number of calls add up to
UsageOf(n) == [d \in Dims |-> n * estimateResourceRequirements[d]]

\* C5: a processUserRequest call whose allocation succeeded releases the
\* same requirements exactly once, after executeTask has finished by return
\* or by throw and not before; once the call has returned or thrown, pool
\* usage no longer includes its allocation.
C5_ReleasedExactlyOnce ==
  /\ resources = UsageOf(inflight + Cardinality(Holders))
  /\ \A r \in Requests :
        /\ (alloc[r] = "granted" /\ r \in Settled) => released[r] = 1
        /\ released[r] <= 1
        /\ released[r] = 1 => (alloc[r] = "granted" /\ tpc[r] \in {"returned", "threw"})
        /\ (alloc[r] = "granted" /\ tpc[r] \notin {"returned", "threw"}) => released[r] = 0

\* C5 witness: executeTask threw for a call holding an allocation, the call
\* has rethrown, and the pool holds only what the other calls still hold
C5_Witness ==
  \E r \in Requests :
    /\ pc[r] = "threw" /\ alloc[r] = "granted"
    /\ tpc[r] = "threw"
    /\ released[r] = 1
    /\ inflight > 0
    /\ resources = UsageOf(inflight + Cardinality(Holders))

\* C6: when allocate returns false for a request, processUserRequest throws
\* 'Insufficient resources to process request', executeTask is not invoked
\* for it (no status change, no task_started, task_completed or task_failed),
\* no release is performed for it, and its steps leave pool usage unchanged.
C6_RefusedRequestRunsNothing ==
  [][\A r \in Requests :
        alloc'[r] = "refused" =>
          /\ pc'[r] \in {"allocated", "threw"}
          /\ pc'[r] = "threw" => result'[r] = "Insufficient resources to process request"
          /\ tpc'[r] = "idle" /\ thist'[r] = <<>> /\ tevents'[r] = <<>>
          /\ released'[r] = 0
          /\ pc'[r] # pc[r] => resources' = resources]_vars

\* C6 witness: a refused request has thrown with the pool full
C6_Witness ==
  \E r \in Requests :
    /\ alloc[r] = "refused"
    /\ pc[r] = "threw"
    /\ result[r] = "Insufficient resources to process request"
    /\ resources.computeUnits = limits.computeUnits

\* two calls have both passed through allocate while the calls suspended in
\* their external call left room for one allocation only
RacedForLastSlot(a, b) ==
  /\ a # b
  /\ pc[a] = "allocated" /\ pc[b] = "allocated"
  /\ UsageOf(inflight + 1).computeUnits = limits.computeUnits

\* C7 (as stated): when calls overlap, two allocations racing for the last
\* free slot both pass the limit check and usage exceeds a limit.
C7_RacingAllocationsOvershoot ==
  \A a, b \in Requests :
    RacedForLastSlot(a, b) => \E d \in Dims : resources[d] > limits[d]

\* C7 (amended): when calls overlap, each allocate checks and commits in one
\* step, so usage stays within every limit and of two calls racing for the
\* last free slot at most one is granted.
C7_OverlappingAllocationsWithinLimits ==
  /\ \A d \in Dims : resources[d] <= limits[d]
  /\ \A a, b \in Requests :
        RacedForLastSlot(a, b) => ~(alloc[a] = "granted" /\ alloc[b] = "granted")

\* C7 witness: two overlapping calls raced for the last slot, one was granted
\* and the other refused, and usage stands at the limit
C7_Witness ==
  \E a, b \in Requests :
    /\ RacedForLastSlot(a, b)
    /\ alloc[a] = "granted" /\ alloc[b] = "refused"
    /\ resources.computeUnits = limits.computeUnits

----------------------------------------------------------------------------
(* Claims about executeTask *)

\* C8: the status sequence of a task passed to executeTask is pending,
\* in_progress, then completed or failed, and a terminal status never
\* changes: a task marked completed, with task_completed emitted, is never
\* marked failed afterwards, also when the evolution step after success fails.
C8_TerminalStatusIsFinal ==
  \A t \in Tasks :
    thist[t] \in {<<>>, <<"pending">>, <<"pending", "in_progress">>,
                  <<"pending", "in_progress", "completed">>,
                  <<"pending", "in_progress", "failed">>}

----------------------------------------------------------------------------
(* Further claims about the decomposer *)

\* C11: after updateSubtaskStatus, when not all subtasks are completed, none
\* is failed and none is in_progress, the task's status is pending.
C11_OtherwisePending ==
  (dcall.op = "updateSubtaskStatus" /\ ~dcall.threw) =>
    ((~AllCompleted(task) /\ ~SomeFailed(task) /\ ~SomeInProgress(task))
        => task.status = "pending")

\* the position of a status in the order pending, in_progress, terminal
StatusRank(status) ==
  CASE status = "pending" -> 0
    [] status = "in_progress" -> 1
    [] OTHER -> 2

\* one status follows another in the order: it is the same, or it is later
\* and the earlier one was not terminal
MovesForward(old, new) ==
  \/ new = old
  \/ StatusRank(old) < StatusRank(new)

\* C12: across any sequence of updateSubtaskStatus calls, the status of each
\* subtask and of the task only moves forward in the order pending,
\* in_progress, completed or failed: no call moves one out of completed or
\* failed, or back to an earlier status.
C12_StatusOnlyMovesForward ==
  [][/\ MovesForward(task.status, task'.status)
     /\ \A i \in SubtaskIds :
          MovesForward(StatusOf(task, i), StatusOf(task', i))]_vars

----------------------------------------------------------------------------
(* Further claims about the request pipeline *)

\* the ids the active-agent map holds a runtime under
ActiveIds == {id \in AgentIds : activeAgents[id] # NoCapableAgent}

\* the runtimes constructed so far
Constructed == {a \in Agents : agent[a].exists}

\* C13: processUserRequest reuses an existing active agent that has the
\* required capability and creates one only when none exists, so however many
\* requests need the one capability, one runtime is constructed and the
\* active-agent map holds one agent.
C13_CapableAgentReused ==
  /\ Cardinality(Constructed) <= 1
  /\ Cardinality(ActiveIds) <= 1

----------------------------------------------------------------------------
(* Further claims about executeTask *)

\* C14: every executeTask call emits task_started before the agent is
\* invoked and then exactly one terminal event, task_completed when the agent
\* call succeeded and task_failed when it failed: never both, and never
\* neither once the call has returned or thrown.
C14_ExactlyOneTerminalEvent ==
  \A t \in Tasks :
    /\ tevents[t] \in {<<>>, <<"task_started">>,
                       <<"task_started", "task_completed">>,
                       <<"task_started", "task_failed">>}
    /\ tpc[t] \in {"returned", "threw"} => Len(tevents[t]) = 2
    /\ tpc[t] # "idle" => Len(tevents[t]) >= 1

----------------------------------------------------------------------------
(* The God Node's task-event handlers driven by the task events of the      *)
(* Orchestrator, in any order (GodNode.setupEventHandlers subscribes them)  *)

\* the Orchestrator emits task_completed
TaskCompletedEvent ==
  /\ metrics.totalTasks < MaxTaskEvents
  /\ metrics' = handleTaskCompletion(metrics)
  /\ UNCHANGED <<ev, poolVars, decompVars, pipelineVars, componentVars>>

\* the Orchestrator emits task_failed
TaskFailedEvent ==
  /\ metrics.totalTasks < MaxTaskEvents
  /\ metrics' = handleTaskFailure(metrics)
  /\ UNCHANGED <<ev, poolVars, decompVars, pipelineVars, componentVars>>

MetricsNext ==
  \/ TaskCompletedEvent
  \/ TaskFailedEvent

SpecMetrics == Init /\ [][MetricsNext]_vars

\* the rate r/1000 on the scale of metrics.successRate
Thousandths(r) == r * (RateOne \div 1000)

LastEvent(m) == m.events[Len(m.events)]

\* C15: on every task_completed or task_failed event the God Node adds one to
\* totalTasks and sets successRate to (oldRate * 9 + outcome) / 10, outcome 1
\* for completed and 0 for failed; from 1.0, three task_failed events in a
\* row give 0.9, 0.81 and 0.729.
C15_RollingSuccessRate ==
  [][metrics' # metrics =>
       /\ metrics'.totalTasks = metrics.totalTasks + 1
       /\ 10 * metrics'.successRate =
            metrics.successRate * 9
              + (IF LastEvent(metrics') = "task_completed" THEN RateOne ELSE 0)
       /\ metrics'.events = <<"task_failed">>
            => metrics'.successRate = Thousandths(900)
       /\ metrics'.events = <<"task_failed", "task_failed">>
            => metrics'.successRate = Thousandths(810)
       /\ metrics'.events = <<"task_failed", "task_failed", "task_failed">>
            => metrics'.successRate = Thousandths(729)]_vars

\* C15 witness: three failures in a row have brought the rate to 0.729 and a
\* completion after them has raised it to (0.729 * 9 + 1) / 10
C15_Witness ==
  /\ metrics.events = <<"task_failed", "task_failed", "task_failed", "task_completed">>
  /\ metrics.totalTasks = 4
  /\ 10 * metrics.successRate = 9 * Thousandths(729) + RateOne

----------------------------------------------------------------------------
(* EvolutionManager.evolveAgent (part_001, lines 102-146) called by any     *)
(* caller, on agents of any metrics, with any strategy name.  A step runs   *)
(* from one suspension of the call to the next.                             *)

\* this.strategies.get(strategyName): the default strategy is registered by
\* the constructor, another one only when a caller registered it
StrategyFound(e, name) == name = "default" \/ (name = "custom" /\ e.registered)

\* strategy.shouldEvolve(state.metrics): the default strategy computes it
\* from the metrics; a registered strategy answers as it pleases, or throws
ShouldEvolveAnswer(e, name, answer) ==
  IF name = "default"
    THEN (IF DefaultShouldEvolve(e.metrics) THEN "true" ELSE "false")
    ELSE answer

\* evolveAgent(agent, strategyName) up to its first suspension in an external
\* call: the lookup, the shouldEvolve check, analyzeAgentPerformance and the
\* request generateEvolutionPlan sends
evolveAgentBegins(e, name, answer) ==
  IF ~StrategyFound(e, name)
    THEN [pc |-> "returned", name |-> name, failedAt |-> "lookup",
          result |-> CatchResult("strategy not found"),
          planCalls |-> 0, hookCalls |-> 0, checked |-> "none"]
  ELSE IF ShouldEvolveAnswer(e, name, answer) = "throws"
    THEN [pc |-> "returned", name |-> name, failedAt |-> "shouldEvolve",
          result |-> CatchResult("shouldEvolve failed"),
          planCalls |-> 0, hookCalls |-> 0, checked |-> "throws"]
  ELSE IF ShouldEvolveAnswer(e, name, answer) = "false"
    THEN [pc |-> "returned", name |-> name, failedAt |-> "none",
          result |-> NoOpResult,
          planCalls |-> 0, hookCalls |-> 0, checked |-> "false"]
  ELSE [pc |-> "awaitPlan", name |-> name, failedAt |-> "none",
        result |-> NoOpResult,
        planCalls |-> 1, hookCalls |-> 0, checked |-> "true"]

EvolveInit ==
  /\ PoolIdle
  /\ DecompIdle
  /\ PipelineIdle
  /\ MetricsIdle
  /\ ComponentsIdle
  /\ \E m \in EvolveMetrics, reg \in BOOLEAN :
        ev = [call |-> NoEvolveCall, registered |-> reg, metrics |-> m]

\* a call evolveAgent(agent, name)
EvolveAgent(name, answer) ==
  /\ ev.call.pc \in {"idle", "returned"}
  /\ ev' = [ev EXCEPT !.call = evolveAgentBegins(ev, name, answer)]
  /\ UNCHANGED <<metrics, poolVars, decompVars, pipelineVars, componentVars>>

\* the external plan generation fails: the catch block builds the result
PlanFails ==
  /\ ev.call.pc = "awaitPlan"
  /\ ev' = [ev EXCEPT !.call.pc = "returned",
                      !.call.failedAt = "plan",
                      !.call.result = CatchResult("plan generation failed")]
  /\ UNCHANGED <<metrics, poolVars, decompVars, pipelineVars, componentVars>>

\* the external plan generation returns: strategy.evolve(agent) is called
PlanReturns ==
  /\ ev.call.pc = "awaitPlan"
  /\ ev' = [ev EXCEPT !.call.pc = "awaitHook", !.call.hookCalls = @ + 1]
  /\ UNCHANGED <<metrics, poolVars, decompVars, pipelineVars, componentVars>>

\* strategy.evolve rejects (only a registered strategy can: the hooks of the
\* default strategy are empty): the catch block builds the result
HookThrows ==
  /\ ev.call.pc = "awaitHook"
  /\ ev.call.name # "default"
  /\ ev' = [ev EXCEPT !.call.pc = "returned",
                      !.call.failedAt = "hook",
                      !.call.result = CatchResult("evolve failed")]
  /\ UNCHANGED <<metrics, poolVars, decompVars, pipelineVars, componentVars>>

\* strategy.evolve resolves: verifyEvolution answers true and the plan's lists
\* are returned
HookReturns ==
  /\ ev.call.pc = "awaitHook"
  /\ ev' = [ev EXCEPT !.call.pc = "returned", !.call.result = PlanResult]
  /\ UNCHANGED <<metrics, poolVars, decompVars, pipelineVars, componentVars>>

EvolveNext ==
  \/ \E name \in StrategyNames, answer \in {"true", "false", "throws"} :
        EvolveAgent(name, answer)
  \/ PlanFails
  \/ PlanReturns
  \/ HookThrows
  \/ HookReturns

SpecEvolve == EvolveInit /\ [][EvolveNext]_vars

\* C16: evolveAgent never propagates an exception: a failure of the strategy
\* lookup (an unknown name included), of the shouldEvolve check, of the plan
\* generation or of the strategy's evolve hook is returned as a result with
\* success false, an error message and empty improvement and capability lists.
C16_FailuresBecomeResults ==
  /\ ~ev.call.result.propagated
  /\ ev.call.failedAt # "none" =>
        /\ ev.call.pc = "returned"
        /\ ev.call.result.success = FALSE
        /\ ev.call.result.error # "none"
        /\ ev.call.result.improvements = <<>>
        /\ ev.call.result.newCapabilities = <<>>

\* C16 witness: the evolve hook of a registered strategy has failed after the
\* plan was generated, and the call has returned the failure
C16_Witness ==
  /\ ev.call.pc = "returned"
  /\ ev.call.failedAt = "hook"
  /\ ev.call.hookCalls = 1
  /\ ev.call.result.success = FALSE
  /\ ~ev.call.result.propagated

\* C17: when the selected strategy's shouldEvolve(metrics) is false,
\* evolveAgent returns success with empty improvement and capability lists
\* and invokes neither the plan generation nor the strategy's evolve hook;
\* the default strategy answers false for every agent with successRate >= 0.8
\* and userSatisfaction >= 0.7, e.g. 0.95, 500 ms and 0.9.
C17_NoOpWhenShouldEvolveFalse ==
  (/\ ev.call.pc # "idle"
   /\ \/ ev.call.checked = "false"
      \/ /\ ev.call.name = "default"
         /\ ev.metrics.successRate >= 800
         /\ ev.metrics.userSatisfaction >= 700)
  => /\ ev.call.pc = "returned"
     /\ ev.call.result = NoOpResult
     /\ ev.call.planCalls = 0
     /\ ev.call.hookCalls = 0

\* C17 witness: the default strategy on an agent with successRate 0.95,
\* averageResponseTime 500 and userSatisfaction 0.9 has returned the no-op
C17_Witness ==
  /\ ev.call.pc = "returned"
  /\ ev.call.name = "default"
  /\ ev.metrics = [successRate |-> 950, userSatisfaction |-> 900,
                   averageResponseTime |-> 500]
  /\ ev.call.result = NoOpResult
  /\ ev.call.planCalls = 0

\* the task's agent call succeeded: the task was marked completed
AgentCallSucceeded(t) == \E i \in 1..Len(thist[t]) : thist[t][i] = "completed"

\* C18: after a successful task executeTask invokes the Evolution Manager's
\* evolveAgent for the executing agent, before it returns, exactly when the
\* agent's successRate is below the agent's own evolutionThreshold; after a
\* failed task it makes no evolution check.
C18_EvolutionManagerInvoked ==
  \A t \in Tasks :
    tpc[t] \in {"returned", "threw"} =>
      IF AgentCallSucceeded(t) /\ shouldEvolve(agent[primaryAgent(t)])
        THEN tevolve[t] = <<"evolutionManager.evolveAgent">>
        ELSE tevolve[t] = <<>>

\* C19: executeTask invokes processConversation on task.agents[0] only: every
\* step of the call leaves the state of every other agent, listed in the task
\* or not, as it was; with an empty list no agent is touched and the task
\* ends failed.
C19_OnlyPrimaryAgentInvoked ==
  [][\A t \in Tasks :
        tpc'[t] # tpc[t] =>
          /\ \A a \in Agents :
                (tagents'[t] = <<>> \/ a # tagents'[t][1]) => agent'[a] = agent[a]
          /\ (tpc[t] = "idle" /\ tagents'[t] # <<>>) =>
                /\ agent'[tagents'[t][1]].status = "busy"
                /\ agent'[tagents'[t][1]].currentTask = t
          /\ (tpc[t] = "idle" /\ tagents'[t] = <<>>) =>
                /\ tpc'[t] = "threw"
                /\ thist'[t][Len(thist'[t])] = "failed"]_vars

\* C19 witness: a task with two different agents is suspended in the call of
\* its first agent, the second one idle without a current task, and a task
\* without agents has ended failed
C19_Witness ==
  \E t, u \in Tasks :
    /\ Len(tagents[t]) = 2 /\ tagents[t][1] # tagents[t][2]
    /\ tpc[t] = "awaitAgent"
    /\ agent[tagents[t][1]].status = "busy"
    /\ agent[tagents[t][2]].status = "idle"
    /\ agent[tagents[t][2]].currentTask = NoTask
    /\ tagents[u] = <<>> /\ tpc[u] = "threw"
    /\ thist[u] = <<"pending", "in_progress", "failed">>

\* C20 (as stated): processConversation sets the agent's status to busy and
\* stamps currentTask on entry; when it returns the status is idle and
\* currentTask is absent; when it fails the status is error and currentTask
\* is still the record of the failed conversation.
C20_ProcessConversationStatus ==
  [][\A t \in Tasks :
        /\ (tpc[t] = "idle" /\ tpc'[t] = "awaitAgent") =>
              /\ agent'[primaryAgent(t)'].status = "busy"
              /\ agent'[primaryAgent(t)'].currentTask = t
        /\ (tpc[t] = "awaitAgent" /\ tpc'[t] = "agentReturned") =>
              /\ agent'[primaryAgent(t)].status = "idle"
              /\ agent'[primaryAgent(t)].currentTask = NoTask
        /\ (tpc[t] = "awaitAgent" /\ tpc'[t] = "agentThrew") =>
              /\ agent'[primaryAgent(t)].status = "error"
              /\ agent'[primaryAgent(t)].currentTask = t]_vars

\* the conversations in progress on the agent of task t, t's own excepted
OverlappingConversations(t) ==
  {u \in Tasks \ {t} :
     tpc[u] \in {"awaitAgent", "agentReturned", "agentThrew", "awaitEvolve",
                 "returned", "threw"}
     /\ tagents[u] # <<>> /\ primaryAgent(u) = primaryAgent(t)}

\* C20 (amended): on entry the status is busy and currentTask is the
\* conversation's record; on return the status is idle and currentTask is
\* absent; on failure the status is error and currentTask is left as the
\* failure found it: the failed conversation's record when no other
\* conversation ran on the agent meanwhile, otherwise whatever the other
\* conversation left (its record, or nothing).
C20_FailureLeavesCurrentTask ==
  [][\A t \in Tasks :
        /\ (tpc[t] = "idle" /\ tpc'[t] = "awaitAgent") =>
              /\ agent'[primaryAgent(t)'].status = "busy"
              /\ agent'[primaryAgent(t)'].currentTask = t
        /\ (tpc[t] = "awaitAgent" /\ tpc'[t] = "agentReturned") =>
              /\ agent'[primaryAgent(t)].status = "idle"
              /\ agent'[primaryAgent(t)].currentTask = NoTask
        /\ (tpc[t] = "awaitAgent" /\ tpc'[t] = "agentThrew") =>
              /\ agent'[primaryAgent(t)].status = "error"
              /\ agent'[primaryAgent(t)].currentTask = agent[primaryAgent(t)].currentTask
              /\ OverlappingConversations(t) = {} =>
                    agent'[primaryAgent(t)].currentTask = t]_vars

\* C20 witness: two conversations overlapped on one agent; the first has
\* returned and deleted currentTask, the second has failed and left the agent
\* in error with no current task
C20_Witness ==
  \E t, u \in Tasks :
    /\ t # u
    /\ tpc[u] \in {"agentReturned", "returned"}
    /\ tpc[t] = "agentThrew"
    /\ primaryAgent(u) = primaryAgent(t)
    /\ agent[primaryAgent(t)].status = "error"
    /\ agent[primaryAgent(t)].currentTask = NoTask

----------------------------------------------------------------------------
(* One BaseAgent runtime driven through processConversation, learn and      *)
(* evolve by any caller, with calls overlapping.  A step runs from one      *)
(* suspension of a call to the next.                                        *)

aroundRuntime ==
  <<poolVars, decompVars, pipelineVars, managerVars, registryVars, graphVars, orphaned, seen>>

\* the runtimes followed: a plain BaseAgent or a subclass with strategies
\* registered, its successRate at 1.0 or sunk below the threshold
Runtimes ==
  { NewRuntime(ls, es, sr) :
      ls \in LearningStrategyLists, es \in EvolutionStrategyLists,
      sr \in {InitialSuccessRate, DegradedSuccessRate} }

AgentInit ==
  /\ PoolIdle
  /\ DecompIdle
  /\ PipelineIdle
  /\ ManagerIdle
  /\ RegistryIdle
  /\ GraphIdle
  /\ orphaned = {}
  /\ seen = NothingSeen
  /\ runtime \in Runtimes
  /\ acall = [c \in Calls |-> NoAgentCall]
  /\ now = 0

\* the call slots are taken in order: call c is the c-th call made
NextCall(c) == acall[c].op = "none" /\ \A b \in Calls : b < c => acall[b].op # "none"

\* generateResponse, the text-generation call having failed: the catch block
\* emits error and rethrows; nothing is recorded
generateResponseThrows(rt, c) ==
  <<rt, [c EXCEPT !.failedAt = "generation", !.emitted = Append(@, "error")]>>

\* processConversation(conversation) up to the text-generation call: status
\* busy, currentTask stamped, generateResponse entered
ProcessConversation(c) ==
  /\ NextCall(c)
  /\ runtime' = processConversationEnters(runtime, c)
  /\ acall' = [acall EXCEPT ![c] = [@ EXCEPT !.op = "processConversation",
                                             !.pc = "generating",
                                             !.startTime = now]]
  /\ UNCHANGED <<now, aroundRuntime>>

\* the text-generation call fails: generateResponse rethrows, and the catch
\* block of processConversation sets the status error
GenerationFails(c) ==
  /\ acall[c].pc = "generating"
  /\ LET r == generateResponseThrows(runtime, acall[c]) IN
       /\ runtime' = processConversationThrows(r[1])
       /\ acall' = [acall EXCEPT ![c] = [r[2] EXCEPT !.pc = "threw"]]
  /\ UNCHANGED <<now, aroundRuntime>>

\* the text-generation call returns: recordExperience stores the Experience
\* and enters learn
GenerationReturns(c) ==
  /\ acall[c].pc = "generating"
  /\ LET r == recordExperienceEnters(runtime, acall[c], SuccessExperience(c, now)) IN
       /\ runtime' = r[1]
       /\ acall' = [acall EXCEPT ![c] = r[2]]
  /\ UNCHANGED <<now, aroundRuntime>>

\* strategy.apply resolves: the loop of learn goes on
StrategyApplyReturns(c) ==
  /\ acall[c].pc = "applying"
  /\ LET r == learnFrom(runtime, acall[c], acall[c].cursor + 1) IN
       /\ runtime' = r[1]
       /\ acall' = [acall EXCEPT ![c] = r[2]]
  /\ UNCHANGED <<now, aroundRuntime>>

\* strategy.apply rejects
StrategyApplyThrows(c) ==
  /\ acall[c].pc = "applying"
  /\ LET r == learnThrows(runtime, acall[c]) IN
       /\ runtime' = r[1]
       /\ acall' = [acall EXCEPT ![c] = r[2]]
  /\ UNCHANGED <<now, aroundRuntime>>

\* recordExperience resumes after learn resolved: cleanupOldMemories
RecordExperienceResumes(c) ==
  /\ acall[c].pc = "learned"
  /\ runtime' = cleanupOldMemories(runtime, now)
  /\ acall' = [acall EXCEPT ![c].pc = "recorded"]
  /\ UNCHANGED <<now, aroundRuntime>>

\* generateResponse resumes after recordExperience resolved: the average
\* response time is updated and the text returned
GenerateResponseReturns(c) ==
  /\ acall[c].pc = "recorded"
  /\ runtime' = generateResponseReturns(runtime, acall[c], now)
  /\ acall' = [acall EXCEPT ![c].pc = "generated"]
  /\ UNCHANGED <<now, aroundRuntime>>

\* processConversation resumes after generateResponse resolved
ConversationReturns(c) ==
  /\ acall[c].pc = "generated"
  /\ runtime' = processConversationReturns(runtime)
  /\ acall' = [acall EXCEPT ![c].pc = "returned"]
  /\ UNCHANGED <<now, aroundRuntime>>

\* learn rejected: recordExperience rejects before its cleanup, generateResponse
\* emits error and rethrows, processConversation sets the status error
ConversationThrows(c) ==
  /\ acall[c].pc = "learnThrew"
  /\ runtime' = processConversationThrows(runtime)
  /\ acall' = [acall EXCEPT ![c] = [@ EXCEPT !.pc = "threw",
                                             !.emitted = Append(@, "error")]]
  /\ UNCHANGED <<now, aroundRuntime>>

\* a call learn(experience) from outside
Learn(c) ==
  /\ NextCall(c)
  /\ LET r == learnEnters(runtime, [acall[c] EXCEPT !.op = "learn"]) IN
       /\ runtime' = r[1]
       /\ acall' = [acall EXCEPT ![c] = r[2]]
  /\ UNCHANGED <<now, aroundRuntime>>

\* a call evolve() from outside
Evolve(c) ==
  /\ NextCall(c)
  /\ LET r == evolveEnters(runtime, [acall[c] EXCEPT !.op = "evolve"]) IN
       /\ runtime' = r[1]
       /\ acall' = [acall EXCEPT ![c] = r[2]]
  /\ UNCHANGED <<now, aroundRuntime>>

\* strategy.evolve resolves: the loop of evolve goes on
EvolutionStrategyReturns(c) ==
  /\ acall[c].pc = "evolving"
  /\ LET r == evolveFrom(runtime, acall[c], acall[c].cursor + 1) IN
       /\ runtime' = r[1]
       /\ acall' = [acall EXCEPT ![c] = r[2]]
  /\ UNCHANGED <<now, aroundRuntime>>

\* strategy.evolve rejects
EvolutionStrategyThrows(c) ==
  /\ acall[c].pc = "evolving"
  /\ LET r == evolveThrows(runtime, acall[c]) IN
       /\ runtime' = r[1]
       /\ acall' = [acall EXCEPT ![c] = r[2]]
  /\ UNCHANGED <<now, aroundRuntime>>

\* a day passes
Tick ==
  /\ now < MaxDays
  /\ now' = now + 1
  /\ UNCHANGED <<runtime, acall, aroundRuntime>>

AgentNext ==
  \/ \E c \in Calls : ProcessConversation(c)
  \/ \E c \in Calls : GenerationFails(c)
  \/ \E c \in Calls : GenerationReturns(c)
  \/ \E c \in Calls : StrategyApplyReturns(c)
  \/ \E c \in Calls : StrategyApplyThrows(c)
  \/ \E c \in Calls : RecordExperienceResumes(c)
  \/ \E c \in Calls : GenerateResponseReturns(c)
  \/ \E c \in Calls : ConversationReturns(c)
  \/ \E c \in Calls : ConversationThrows(c)
  \/ \E c \in Calls : Learn(c)
  \/ \E c \in Calls : Evolve(c)
  \/ \E c \in Calls : EvolutionStrategyReturns(c)
  \/ \E c \in Calls : EvolutionStrategyThrows(c)

\* the calls are followed within one day
SpecAgent == AgentInit /\ [][AgentNext]_vars

----------------------------------------------------------------------------
(* The episodic memory of one runtime as conversations are processed and    *)
(* the days pass                                                            *)

MemoryInit ==
  /\ PoolIdle
  /\ DecompIdle
  /\ PipelineIdle
  /\ ManagerIdle
  /\ RegistryIdle
  /\ GraphIdle
  /\ orphaned = {}
  /\ seen = NothingSeen
  /\ runtime \in {NewRuntime(ls, <<>>, InitialSuccessRate) : ls \in LearningStrategyLists}
  /\ acall = [c \in Calls |-> NoAgentCall]
  /\ now = 0

MemoryNext ==
  \/ \E c \in Calls : ProcessConversation(c)
  \/ \E c \in Calls : GenerationFails(c)
  \/ \E c \in Calls : GenerationReturns(c)
  \/ \E c \in Calls : StrategyApplyReturns(c)
  \/ \E c \in Calls : StrategyApplyThrows(c)
  \/ \E c \in Calls : RecordExperienceResumes(c)
  \/ \E c \in Calls : GenerateResponseReturns(c)
  \/ \E c \in Calls : ConversationReturns(c)
  \/ \E c \in Calls : ConversationThrows(c)
  \/ Tick

SpecMemory == MemoryInit /\ [][MemoryNext]_vars

----------------------------------------------------------------------------
(* Agent Runtime claims, checked under SpecAgent *)

IsPrefix(s, t) == Len(s) <= Len(t) /\ \A i \in 1..Len(s) : s[i] = t[i]

Emitted(c, type) == \E i \in 1..Len(c.emitted) : c.emitted[i] = type

\* the call has gone through learn: called directly, or from recordExperience
\* once processConversation got its text
WentThroughLearn(c) ==
  c.op = "learn" \/ (c.op = "processConversation" /\ c.emitted # <<>> /\ c.emitted[1] = "learning_started")

\* the learn of the call has returned or thrown
LearnEnded(c) ==
  \/ c.op = "learn" /\ c.pc \in {"returned", "threw"}
  \/ c.op = "processConversation" /\ c.pc \in {"learned", "learnThrew"}

\* C21: learn sets the status to learning and emits learning_started first,
\* applies the registered learning strategies in registration order, emits
\* learning_completed only when every one of them succeeded, and at the step
\* at which it returns or throws the agent's status is idle.
C21_LearnRestoresIdle ==
  [][\A c \in Calls :
       /\ (acall[c].pc # "applying" /\ acall'[c].pc = "applying")
            => /\ runtime'.status = "learning"
               /\ acall'[c].emitted = <<"learning_started">>
       /\ WentThroughLearn(acall'[c])
            => /\ acall'[c].emitted[1] = "learning_started"
               /\ IsPrefix(acall'[c].applied, runtime'.learningStrategies)
               /\ Emitted(acall'[c], "learning_completed")
                    => /\ acall'[c].applied = runtime'.learningStrategies
                       /\ acall'[c].failedAt = "none"
       /\ (~LearnEnded(acall[c]) /\ LearnEnded(acall'[c]))
            => runtime'.status = "idle"]_vars

\* a learn call whose second strategy failed has thrown: both strategies were
\* applied in order, learning_completed was not emitted, the status is idle
C21_Witness ==
  \E c \in Calls :
    /\ acall[c].op = "learn"
    /\ acall[c].pc = "threw"
    /\ acall[c].applied = <<"first", "second">>
    /\ acall[c].emitted = <<"learning_started", "error">>
    /\ runtime.status = "idle"

\* the names of the evolution strategies whose shouldEvolve answers true, in
\* registration order
Willing(rt) ==
  LET sel == SelectSeq(rt.evolutionStrategies, LAMBDA e : e.shouldEvolve)
  IN  [i \in 1..Len(sel) |-> sel[i].name]

\* C22: evolve does nothing when successRate >= evolutionThreshold (no status
\* change, no event, no strategy applied); when successRate is below the
\* threshold the status goes to evolving, only the strategies whose
\* shouldEvolve(metrics) is true are applied, and at the step at which evolve
\* returns or throws the status is idle.
C22_EvolveOnlyBelowThreshold ==
  [][\A c \in Calls :
       /\ (acall[c].op = "none" /\ acall'[c].op = "evolve" /\ ~shouldEvolve(runtime))
            => /\ runtime' = runtime
               /\ acall'[c].emitted = <<>>
               /\ acall'[c].applied = <<>>
               /\ acall'[c].pc = "returned"
       /\ (acall[c].op = "none" /\ acall'[c].op = "evolve" /\ shouldEvolve(runtime))
            => /\ acall'[c].emitted[1] = "evolution_started"
               /\ acall'[c].pc = "evolving" => runtime'.status = "evolving"
       /\ acall'[c].op = "evolve"
            => IsPrefix(acall'[c].applied, Willing(runtime'))
       /\ (acall'[c].op = "evolve" /\ acall[c].pc # acall'[c].pc
             /\ acall'[c].pc \in {"returned", "threw"} /\ shouldEvolve(runtime))
            => runtime'.status = "idle"]_vars

\* an evolve call on a runtime below its threshold has returned: the first
\* strategy, whose shouldEvolve answered false, was passed over and the second
\* applied; the status is idle
C22_Witness ==
  \E c \in Calls :
    /\ acall[c].op = "evolve"
    /\ acall[c].pc = "returned"
    /\ Len(runtime.evolutionStrategies) = 2
    /\ ~runtime.evolutionStrategies[1].shouldEvolve
    /\ acall[c].applied = <<"second">>
    /\ acall[c].emitted = <<"evolution_started", "evolution_completed">>
    /\ runtime.status = "idle"

----------------------------------------------------------------------------
(* The Orchestrator driven through createAgent, destroyAgent and executeTask *)
(* by any caller, the God Node being subscribed to its events               *)

\* the id the task's events carry: task.agents[0]?.config.id || 'system',
\* read from the runtime the task holds
EventAgentId_FromMap(t) ==
  IF tagents[t] = <<>> \/ activeAgents[agent[primaryAgent(t)].id] # primaryAgent(t)
    THEN NoId
    ELSE agent[primaryAgent(t)].id

EventAgentId(t) ==
  IF tagents[t] = <<>> THEN NoId ELSE agent[primaryAgent(t)].id

\* the runtime objects are numbered in the order of their construction
NextSlot(a) == ~agent[a].exists /\ \A b \in Agents : b < a => agent[b].exists

\* the tasks suspended in the external call of a runtime registered under id
PendingOn(id) ==
  {t \in Tasks : /\ tpc[t] = "awaitAgent"
                 /\ activeAgents[id] = primaryAgent(t)}

\* a call createAgent(config), config.id built from the clock as
\* ensureCapableAgents builds it
CreateAgent(a) ==
  /\ NextSlot(a)
  /\ \E id \in NextAgentIds(agent) : createAgent(a, id)
  /\ UNCHANGED <<pc, alloc, released, result, inflight, taskVars, ev,
                 poolVars, decompVars, componentVars>>

\* a call destroyAgent(id)
DestroyAgent(id) ==
  /\ destroyAgent(id)
  /\ orphaned' = orphaned \cup PendingOn(id)
  /\ UNCHANGED <<pc, alloc, released, result, inflight, taskVars, agent, ev,
                 poolVars, decompVars, runtimeVars, registryVars, graphVars, seen>>

\* a call executeTask(task) with a runtime createAgent returned as its one
\* agent; the caller makes its calls one after the other, and the tasks are
\* numbered in the order of the calls
ExecuteCreated(t, a) ==
  /\ agent[a].exists
  /\ \A u \in Tasks : u < t => tpc[u] \in {"returned", "threw"}
  /\ ExecuteTask(t, <<a>>)

OrchNext ==
  \/ \E a \in Agents : CreateAgent(a)
  \/ \E id \in AgentIds : DestroyAgent(id)
  \/ \E t \in Tasks, a \in Agents : ExecuteCreated(t, a)
  \/ \E t \in Tasks : AgentCallFails(t)
  \/ \E t \in Tasks : TaskFails(t)
  \/ \E t \in Tasks : AgentCallReturns(t)
  \/ \E t \in Tasks : TaskCompletes(t, TRUE)

SpecOrch == Init /\ [][OrchNext]_vars

\* the external call of a task settles, and the event loop resumes the
\* executeTask call that awaits it
SpecOrchLive ==
  /\ SpecOrch
  /\ \A t \in Tasks : WF_vars(AgentCallFails(t) \/ AgentCallReturns(t))
  /\ \A t \in Tasks : WF_vars(TaskFails(t))
  /\ \A t \in Tasks : WF_vars(TaskCompletes(t, TRUE))

\* C23: the God Node's activeAgents counter equals the number of entries of
\* the Orchestrator's active-agent map after any sequence of createAgent and
\* destroyAgent calls.
C23_CounterMatchesMap ==
  metrics.activeAgents = Cardinality({id \in AgentIds : activeAgents[id] # NoCapableAgent})

\* the task has ended: completed or failed, its terminal event emitted with
\* the id of the agent it ran on
EndedOn(t) ==
  /\ tpc[t] \in {"returned", "threw"}
  /\ tagents[t] # <<>>
  /\ \/ /\ thist[t][Len(thist[t])] = "completed"
        /\ tevents[t][Len(tevents[t])] = "task_completed"
     \/ /\ thist[t][Len(thist[t])] = "failed"
        /\ tevents[t][Len(tevents[t])] = "task_failed"
  /\ EventAgentId(t) = agent[primaryAgent(t)].id

----------------------------------------------------------------------------
(* The Agent Registry driven by an arbitrary call sequence *)

aroundRegistry ==
  <<poolVars, decompVars, pipelineVars, managerVars, runtimeVars, graphVars, orphaned, seen>>

\* a call registerAgent(name, agentClass, metadata)
RegisterAgent(name, agentClass, metadata) ==
  /\ LET r == registerAgent(agents, name, agentClass, metadata) IN
       /\ agents' = r[2]
       /\ rcall' = [op |-> "registerAgent", name |-> name, agent |-> agentClass,
                    metadata |-> metadata, threw |-> r[1]]
  /\ UNCHANGED aroundRegistry

\* a call getAgent(name): the entry, or "not found" thrown
GetAgent(name) ==
  /\ rcall' = IF IsRegistered(agents, name)
                THEN [op |-> "getAgent", name |-> name, agent |-> agents[name].agent,
                      metadata |-> agents[name].metadata, threw |-> FALSE]
                ELSE [op |-> "getAgent", name |-> name, agent |-> NoRegistryCall.agent,
                      metadata |-> NoRegistryCall.metadata, threw |-> TRUE]
  /\ UNCHANGED <<agents, aroundRegistry>>

RegistryNext ==
  \/ \E name \in RegistryNames, agentClass \in Blueprints, metadata \in Metadata :
       RegisterAgent(name, agentClass, metadata)
  \/ \E name \in RegistryNames : GetAgent(name)

SpecRegistry == Init /\ [][RegistryNext]_vars

\* C24: registerAgent fails with the duplicate-name error when the name is
\* already registered and leaves the registry unchanged; otherwise it stores
\* the blueprint and metadata given; no entry ever changes once stored, so each
\* name maps to what its first successful registration gave.
C24_DuplicateNameRejected ==
  [][/\ \A n \in DOMAIN agents : n \in DOMAIN agents' /\ agents'[n] = agents[n]
     /\ rcall'.op = "registerAgent"
          => IF rcall'.name \in DOMAIN agents
               THEN rcall'.threw /\ agents' = agents
               ELSE /\ ~rcall'.threw
                    /\ DOMAIN agents' = DOMAIN agents \cup {rcall'.name}
                    /\ agents'[rcall'.name] =
                         [agent |-> rcall'.agent, metadata |-> rcall'.metadata]]_vars

\* a second registration of a name, with another blueprint and other metadata,
\* has thrown and the name still maps to the first
C24_Witness ==
  /\ rcall.op = "registerAgent"
  /\ rcall.threw
  /\ rcall.name \in DOMAIN agents
  /\ agents[rcall.name].agent # rcall.agent
  /\ agents[rcall.name].metadata # rcall.metadata

----------------------------------------------------------------------------
(* The Knowledge Graph (part_002) driven by an arbitrary call sequence *)

aroundGraph ==
  <<poolVars, decompVars, pipelineVars, managerVars, runtimeVars, registryVars, orphaned, seen>>

\* the ids whose relationship sets hold id
PointingAt(rels, id) == {k \in DOMAIN rels : id \in rels[k]}

\* a call addNode(id, data)
AddNode(id, data) ==
  /\ LET g == addNode(nodes, relationships, id, data) IN
       /\ nodes' = g[1]
       /\ relationships' = g[2]
  /\ kcall' = [op |-> "addNode", id |-> id, from |-> {}, to |-> {}]
  /\ UNCHANGED aroundGraph

\* a call addRelationship(fromId, toId)
AddRelationship(fromId, toId) ==
  /\ LET g == addRelationship(nodes, relationships, fromId, toId) IN
       /\ nodes' = g[1]
       /\ relationships' = g[2]
  /\ kcall' = [op |-> "addRelationship", id |-> fromId, from |-> {}, to |-> {toId}]
  /\ UNCHANGED aroundGraph

\* a call removeNode(id); the call record keeps the ids that pointed at the
\* node and the ids the node pointed at
RemoveNode(id) ==
  /\ LET g == removeNode(nodes, relationships, id) IN
       /\ nodes' = g[1]
       /\ relationships' = g[2]
  /\ kcall' = [op |-> "removeNode", id |-> id,
               from |-> PointingAt(relationships, id) \ {id},
               to |-> IF id \in DOMAIN relationships THEN relationships[id] ELSE {}]
  /\ UNCHANGED aroundGraph

GraphNext ==
  \/ \E id \in NodeIds, data \in NodeData : AddNode(id, data)
  \/ \E fromId \in NodeIds, toId \in NodeIds : AddRelationship(fromId, toId)
  \/ \E id \in NodeIds : RemoveNode(id)

SpecGraph == Init /\ [][GraphNext]_vars

\* C25: after removeNode(x), x is no node and has no relationship set, no
\* remaining relationship set holds x, and every other node, and every
\* relationship that does not involve x, is as it was.
C25_RemoveNodeFrame ==
  [][kcall'.op = "removeNode"
       => LET x == kcall'.id IN
            /\ x \notin DOMAIN nodes'
            /\ x \notin DOMAIN relationships'
            /\ \A k \in DOMAIN relationships' : x \notin relationships'[k]
            /\ DOMAIN nodes' = DOMAIN nodes \ {x}
            /\ \A k \in DOMAIN nodes' : nodes'[k] = nodes[k]
            /\ DOMAIN relationships' = DOMAIN relationships \ {x}
            /\ \A k \in DOMAIN relationships' :
                 relationships'[k] = relationships[k] \ {x}]_vars

\* removeNode(x) has run on a graph with y -> x and x -> z: y and z are still
\* nodes, and y no longer points at x
C25_Witness ==
  /\ kcall.op = "removeNode"
  /\ kcall.id = "x"
  /\ "y" \in kcall.from
  /\ "z" \in kcall.to
  /\ {"y", "z"} \subseteq DOMAIN nodes
  /\ "x" \notin relationships["y"]
  /\ "x" \notin DOMAIN nodes

----------------------------------------------------------------------------
(* Agent memory claims, checked under SpecMemory *)

\* C26: when recordExperience completes at time now, the episodic memory holds
\* no Experience whose timestamp is older than now minus memoryRetention days,
\* and it holds the Experience just recorded if that one's timestamp is within
\* the window.
C26_RetentionOnRecord ==
  [][\A c \in Calls :
       (acall[c].pc = "learned" /\ acall'[c].pc = "recorded")
         => /\ \A e \in runtime'.episodic : e.timestamp >= now' - memoryRetention
            /\ \A e \in acall[c].experience :
                 e.timestamp >= now' - memoryRetention => e \in runtime'.episodic]_vars

\* a recordExperience has just completed: the Experience an earlier call
\* recorded, by now older than the window, is gone, and the one just recorded
\* is held
C26_Witness ==
  \E c, d \in Calls :
    /\ c # d
    /\ acall[c].pc = "recorded"
    /\ acall[c].experience # {}
    /\ acall[c].experience \subseteq runtime.episodic
    /\ acall[d].pc = "returned"
    /\ \E e \in acall[d].experience :
         /\ e.timestamp < now - memoryRetention
         /\ e \notin runtime.episodic

----------------------------------------------------------------------------
(* Agent status and experience claims, checked under SpecAgent *)

\* C28: an agent's status changes to learning or to evolving only from idle.
C28_LearnEvolveOnlyFromIdle ==
  [][(runtime'.status \in {"learning", "evolving"} /\ runtime'.status # runtime.status)
       => runtime.status = "idle"]_vars

\* C29: when the text-generation call of a conversation has failed, the
\* conversation has thrown and the episodic memory holds an Experience of that
\* call whose outcome has success = false.
C29_FailedGenerationRecorded ==
  \A c \in Calls :
    acall[c].failedAt = "generation"
      => /\ acall[c].pc = "threw"
         /\ \E at \in Days : FailedExperience(c, at) \in runtime.episodic

----------------------------------------------------------------------------
(* Agent metrics claim, checked under SpecExec *)

\* BaseAgent.handleTaskCompletion: successRate = (successRate * 9 + 1) / 10
handleTaskCompletionRate(successRate) == (successRate * 9 + InitialSuccessRate) \div 10

\* C30: when executeTask fails on an agent, that agent's metrics.successRate
\* becomes 9/10 of what it was, and (old * 9 + 1) / 10 when the task succeeds.
C30_AgentRateFollowsTasks ==
  [][\A t \in Tasks :
       /\ (tpc[t] = "agentThrew" /\ tpc'[t] = "threw")
            => agent'[primaryAgent(t)].successRate =
                 handleTaskFailureRate(agent[primaryAgent(t)].successRate)
       /\ (tpc[t] = "agentReturned" /\ tpc'[t] \in {"returned", "awaitEvolve"})
            => agent'[primaryAgent(t)].successRate =
                 handleTaskCompletionRate(agent[primaryAgent(t)].successRate)]_vars

----------------------------------------------------------------------------
(* generateResponse claim, checked under SpecMemory *)

\* C31: a generateResponse call that completes has added exactly one
\* Experience, with success = true, to the episodic memory, and at the step at
\* which it completes averageResponseTime becomes (oldAvg + latency) / 2; a
\* call whose text-generation call fails adds no Experience and leaves
\* averageResponseTime unchanged.
C31_GenerateResponseRecords ==
  [][\A c \in Calls :
       /\ (acall[c].pc = "generating" /\ acall'[c].pc # "generating"
             /\ acall'[c].failedAt # "generation")
            => /\ runtime'.episodic \ runtime.episodic = {SuccessExperience(c, now)}
               /\ acall'[c].experience = {SuccessExperience(c, now)}
       /\ (acall[c].pc # "generating" /\ acall'[c] # acall[c])
            => /\ runtime'.episodic \subseteq runtime.episodic
               /\ acall'[c].experience = acall[c].experience
       /\ (acall[c].pc = "recorded" /\ acall'[c].pc = "generated")
            => /\ Cardinality(acall'[c].experience) = 1
               /\ \A e \in acall'[c].experience : e.success
               /\ 2 * runtime'.averageResponseTime =
                    runtime.averageResponseTime
                      + (now - acall[c].startTime) * ResponseTimeUnit
       /\ (acall[c].pc = "generating" /\ acall'[c].failedAt = "generation")
            => /\ runtime'.episodic = runtime.episodic
               /\ acall'[c].experience = {}
               /\ runtime'.averageResponseTime = runtime.averageResponseTime]_vars

\* one conversation has completed with a latency above zero, its Experience
\* recorded and the average a fraction of a day, and another has failed in its
\* text-generation call, nothing recorded for it
C31_Witness ==
  \E c, d \in Calls :
    /\ c # d
    /\ acall[c].pc \in {"generated", "returned"}
    /\ acall[d].pc = "threw"
    /\ acall[d].failedAt = "generation"
    /\ acall[d].experience = {}
    /\ \E e \in acall[c].experience : e.success /\ e.id = c
    /\ runtime.averageResponseTime > 0
    /\ runtime.averageResponseTime < ResponseTimeUnit

----------------------------------------------------------------------------
(* Event delivery claim, checked under SpecExec *)

TerminalEvents == {"task_completed", "task_failed"}

\* the terminal events among the events emitted for the task, in order
TerminalOf(events) == SelectSeq(events, LAMBDA e : e \in TerminalEvents)

\* how many times x occurs in the sequence
Count(seq, x) == Cardinality({i \in 1..Len(seq) : seq[i] = x})

\* how many events of the type the Orchestrator has emitted over all tasks
RECURSIVE EmittedOver(_, _)
EmittedOver(S, type) ==
  IF S = {} THEN 0
  ELSE LET t == CHOOSE u \in S : TRUE
       IN  Count(tevents[t], type) + EmittedOver(S \ {t}, type)

\* the success rate the handlers leave after the events, from 1.0
RECURSIVE RateAfter(_)
RateAfter(events) ==
  IF events = <<>> THEN RateOne
  ELSE LET before == RateAfter(SubSeq(events, 1, Len(events) - 1))
       IN  IF events[Len(events)] = "task_completed"
             THEN (before * 9 + RateOne) \div 10
             ELSE (before * 9) \div 10

\* C32: the God Node's handlers run within the emit: at every moment, and so
\* by the time executeTask has returned or thrown, totalTasks and successRate
\* account for every terminal event emitted so far, that of the task included;
\* the events of one task are task_started first and terminal events after it.
C32_EventsDeliveredAtEmission ==
  /\ metrics.totalTasks = EmittedOver(Tasks, "task_completed") + EmittedOver(Tasks, "task_failed")
  /\ \A type \in TerminalEvents : Count(metrics.events, type) = EmittedOver(Tasks, type)
  /\ metrics.successRate = RateAfter(metrics.events)
  /\ \A t \in Tasks :
       /\ tevents[t] # <<>> =>
            /\ tevents[t][1] = "task_started"
            /\ \A i \in 2..Len(tevents[t]) : tevents[t][i] \in TerminalEvents
       /\ tpc[t] \in {"returned", "threw"} => TerminalOf(tevents[t]) # <<>>

\* one task has returned and another has thrown after it: the God Node has
\* counted both, the completion first
C32_Witness ==
  \E t, u \in Tasks :
    /\ tpc[t] = "returned"
    /\ tpc[u] = "threw"
    /\ tevents[t] = <<"task_started", "task_completed">>
    /\ tevents[u] = <<"task_started", "task_failed">>
    /\ tagents[u] # <<>>
    /\ metrics.events = <<"task_completed", "task_failed">>
    /\ metrics.totalTasks = 2
    /\ metrics.successRate = (RateOne * 9) \div 10

----------------------------------------------------------------------------
(* Pipeline claims on a pending external call, checked under Spec *)

\* the external text-generation call of the request's task is outstanding
ExternalCallPending(r) == tpc[r] = "awaitAgent"

CurrentStatus(t) == thist[t][Len(thist[t])]

\* C33: for as long as the external text-generation call of a request has not
\* returned, the processUserRequest call has not completed, its task is
\* in_progress and its allocation has not been released: pool usage is at
\* least the request's allocation in every dimension.  A call that never
\* returns keeps the request there for ever.
C33_HungCallBlocksPipeline ==
  \A r \in Requests :
    ExternalCallPending(r)
      => /\ pc[r] = "executing"
         /\ result[r] = "none"
         /\ CurrentStatus(r) = "in_progress"
         /\ alloc[r] = "granted"
         /\ released[r] = 0
         /\ \A d \in Dims : resources[d] >= estimateResourceRequirements[d]

\* one request is suspended in its external call while another has run to its
\* end and released: the pool still holds the allocation of the first
C33_Witness ==
  \E r, q \in Requests :
    /\ ExternalCallPending(r)
    /\ pc[q] = "returned"
    /\ released[q] = 1
    /\ inflight = 0
    /\ resources = estimateResourceRequirements

----------------------------------------------------------------------------
(* Readiness on malformed dependency graphs, checked under SpecDecomp *)

\* subtask j is listed, by id, among the dependencies of subtask i
DependsOn(t, i, j) == t.subtasks[j].id \in t.subtasks[i].dependencies

\* subtask i reaches subtask j along at most n dependency edges
RECURSIVE ReachesIn(_, _, _, _)
ReachesIn(t, i, j, n) ==
  IF n = 0 THEN FALSE
  ELSE \/ DependsOn(t, i, j)
       \/ \E k \in 1..Len(t.subtasks) : DependsOn(t, i, k) /\ ReachesIn(t, k, j, n - 1)

Reaches(t, i, j) == ReachesIn(t, i, j, Len(t.subtasks))

\* the subtask lies on a dependency cycle
OnCycle(t, i) == Reaches(t, i, i)

\* the subtask lists a dependency id that matches no sibling
Dangling(t, i) == \E dep \in t.subtasks[i].dependencies : Find(t.subtasks, dep) = 0

\* the subtasks a getNextSubtasks call returned
Returned(c) == {c.ret[k] : k \in 1..Len(c.ret)}

\* C34 as stated: a subtask on a dependency cycle, or with a dependency id that
\* matches no sibling, is never returned by getNextSubtasks while it is
\* pending, whatever statuses the other subtasks have reached, and the call
\* raises no error.
C34_NeverReturnedOnBadDependencies ==
  [][dcall'.op = "getNextSubtasks" =>
       /\ ~dcall'.threw
       /\ \A i \in 1..Len(task.subtasks) :
            (OnCycle(task, i) \/ Dangling(task, i))
              => task.subtasks[i].id \notin Returned(dcall')]_vars

\* C34 amended: a subtask that lists itself or an id matching no sibling is
\* never returned, whatever statuses the others have reached; a subtask on a
\* longer cycle is returned only once the siblings it depends on along the
\* cycle have been marked completed, and none of the cycle is returned while
\* all of the cycle is pending; the call raises no error.
C34_StallsWhileCyclePending ==
  [][dcall'.op = "getNextSubtasks" =>
       /\ ~dcall'.threw
       /\ \A i \in 1..Len(task.subtasks) :
            /\ (DependsOn(task, i, i) \/ Dangling(task, i))
                 => task.subtasks[i].id \notin Returned(dcall')
            /\ (OnCycle(task, i) /\ task.subtasks[i].id \in Returned(dcall'))
                 => \A j \in 1..Len(task.subtasks) :
                      (DependsOn(task, i, j) /\ Reaches(task, j, i))
                        => task.subtasks[j].status = "completed"
            /\ (OnCycle(task, i)
                  /\ \A j \in 1..Len(task.subtasks) :
                       (Reaches(task, i, j) /\ Reaches(task, j, i))
                         => task.subtasks[j].status = "pending")
                 => task.subtasks[i].id \notin Returned(dcall')]_vars

\* getNextSubtasks has just returned nothing and raised nothing: two pending
\* subtasks depend on each other and every other subtask is completed
C34_Witness ==
  /\ dcall.op = "getNextSubtasks"
  /\ dcall.ret = <<>>
  /\ ~dcall.threw
  /\ \E i, j \in 1..Len(task.subtasks) :
       /\ i # j
       /\ DependsOn(task, i, j) /\ DependsOn(task, j, i)
       /\ task.subtasks[i].status = "pending"
       /\ task.subtasks[j].status = "pending"
       /\ \A k \in 1..Len(task.subtasks) \ {i, j} : task.subtasks[k].status = "completed"

----------------------------------------------------------------------------
(* A caller's scheduling loop over a well-formed task: it calls              *)
(* getNextSubtasks, marks every subtask returned completed, and calls again  *)
(* until nothing is returned                                                 *)

\* decomposeTask with n subtasks and the dependency lists g
DecomposedTaskOf(n, g) ==
  [subtasks |-> [i \in 1..n |-> [id |-> i, dependencies |-> g[i], status |-> "pending"]],
   status |-> "pending"]

\* the dependency lists over n siblings that name siblings only and close no cycle
AcyclicGraphs(n) ==
  { g \in [1..n -> SUBSET (1..n)] :
      \A i \in 1..n : ~OnCycle(DecomposedTaskOf(n, g), i) }

ReadyInit ==
  /\ PoolIdle
  /\ PipelineIdle
  /\ ManagerIdle
  /\ ComponentsIdle
  /\ \E n \in SubtaskIds : \E g \in AcyclicGraphs(n) : task = DecomposedTaskOf(n, g)
  /\ dcall = NoDecompCall
  /\ sched = NoRounds

\* the loop calls getNextSubtasks(task) and holds what it returned; it stops
\* once a call has returned nothing
ScheduleRound ==
  /\ sched.held = <<>>
  /\ IF sched.rounds = <<>> THEN TRUE ELSE sched.rounds[Len(sched.rounds)] # <<>>
  /\ dcall' = [op |-> "getNextSubtasks", ret |-> getNextSubtasks(task), threw |-> FALSE]
  /\ sched' = [held |-> getNextSubtasks(task),
               rounds |-> Append(sched.rounds, getNextSubtasks(task))]
  /\ UNCHANGED <<task, poolVars, pipelineVars, managerVars, componentVars>>

\* the loop marks the next subtask it holds:
\* task = updateSubtaskStatus(task, id, 'completed')
CompleteHeld ==
  /\ sched.held # <<>>
  /\ task' = updateSubtaskStatus(task, Head(sched.held), "completed")
  /\ dcall' = [op |-> "updateSubtaskStatus", ret |-> <<Head(sched.held)>>, threw |-> FALSE]
  /\ sched' = [sched EXCEPT !.held = Tail(@)]
  /\ UNCHANGED <<poolVars, pipelineVars, managerVars, componentVars>>

ReadyNext ==
  \/ ScheduleRound
  \/ CompleteHeld

\* the loop is straight-line code: it goes on while it has a step to take
SpecReady == ReadyInit /\ [][ReadyNext]_vars /\ WF_vars(ReadyNext)

\* the task of the example: A without dependencies, B on A, C on A and B
IsChain(t) ==
  /\ Len(t.subtasks) = 3
  /\ t.subtasks[1].dependencies = {}
  /\ t.subtasks[2].dependencies = {1}
  /\ t.subtasks[3].dependencies = {1, 2}

\* C35: on an acyclic dependency graph whose ids all name siblings, the loop
\* that marks every subtask getNextSubtasks returns completed eventually has
\* every subtask completed and the task's status completed; no subtask is
\* returned in a round after it was completed; for A, B (on A), C (on A, B) the
\* successive results are [A], [B], [C].
C35_LoopCompletesAcyclicTask ==
  /\ <>[](AllCompleted(task) /\ task.status = "completed")
  /\ [][sched'.rounds # sched.rounds =>
          \A id \in Returned(dcall') :
            /\ StatusOf(task, id) # "completed"
            /\ \A k \in 1..Len(sched.rounds) :
                 \A m \in 1..Len(sched.rounds[k]) : sched.rounds[k][m] # id]_vars
  /\ [](IsChain(task) => IsPrefix(sched.rounds, <<<<1>>, <<2>>, <<3>>, <<>>>>))
  /\ [](IsChain(task) => <>(sched.rounds = <<<<1>>, <<2>>, <<3>>, <<>>>>))

\* the loop has ended on the task of the example: three rounds of one subtask
\* each, then an empty one, every subtask and the task completed
C35_Witness ==
  /\ IsChain(task)
  /\ sched.rounds = <<<<1>>, <<2>>, <<3>>, <<>>>>
  /\ sched.held = <<>>
  /\ AllCompleted(task)
  /\ task.status = "completed"

\* the requests followed whose task is in_progress
InProgress == {r \in Requests : thist[r] # <<>> /\ CurrentStatus(r) = "in_progress"}

\* C36: with k tasks started by processUserRequest in status in_progress (the
\* calls not followed step by step are suspended with theirs in_progress),
\* pool usage is at least k times the per-request requirement in every
\* dimension; each of these tasks was started with its request's allocation
\* granted, and that allocation has not been released.
C36_InProgressTasksHoldAllocations ==
  /\ \A d \in Dims :
       resources[d] >= (Cardinality(InProgress) + inflight) * estimateResourceRequirements[d]
  /\ \A r \in InProgress : alloc[r] = "granted" /\ released[r] = 0

\* two requests followed and one more are suspended in their external calls,
\* all three tasks in_progress, while the pool holds exactly three allocations
C36_Witness ==
  /\ inflight = 1
  /\ \E r, q \in InProgress : r # q /\ ExternalCallPending(r) /\ ExternalCallPending(q)
  /\ resources = UsageOf(3)

----------------------------------------------------------------------------
(* The request pipeline when every external call eventually settles *)

\* every external text-generation call eventually returns or fails, and the
\* event loop resumes every call whose await has settled
SpecLive ==
  /\ Spec
  /\ \A r \in Requests : WF_vars(EnsureCapableAgents(r))
  /\ \A r \in Requests : WF_vars(Allocate(r))
  /\ \A r \in Requests : WF_vars(Reject(r))
  /\ \A r \in Requests : WF_vars(Execute(r))
  /\ \A t \in Tasks : WF_vars(AgentCallFails(t) \/ AgentCallReturns(t))
  /\ \A t \in Tasks : WF_vars(TaskFails(t))
  /\ \A t \in Tasks : WF_vars(TaskCompletes(t, TRUE))
  /\ \A r \in Requests : WF_vars(Release(r))
  /\ \A r \in Requests : WF_vars(Complete(r))
  /\ WF_vars(OtherRequestFinished)

\* the processUserRequest call has returned a result or thrown an error
Terminated(r) ==
  \/ pc[r] = "returned" /\ result[r] = "result"
  \/ pc[r] = "threw" /\ result[r] # "none"

\* C37: when every external call eventually returns or fails, every
\* processUserRequest call made eventually terminates with a result or an
\* error, and whenever all the calls made have terminated pool usage is zero
\* in all four dimensions.
C37_RequestsTerminateAndPoolDrains ==
  /\ \A r \in Requests : (pc[r] # "idle") ~> Terminated(r)
  /\ []((inflight = 0 /\ \A r \in Requests : pc[r] = "idle" \/ Terminated(r))
          => resources = ZeroUsage)

\* every request followed has terminated, one with the task's result, one
\* with the task's error, after calls not followed had been admitted and had
\* ended: the pool is empty
C37_Witness ==
  /\ inflight = 0
  /\ \A r \in Requests : Terminated(r)
  /\ \E r, q \in Requests :
       /\ pc[r] = "returned" /\ released[r] = 1
       /\ pc[q] = "threw" /\ result[q] = "task error" /\ released[q] = 1
  /\ resources = ZeroUsage

----------------------------------------------------------------------------
(* Agent acquisition and admission control, checked under SpecObserved *)

\* the processUserRequest call was refused by the pool and has thrown
Rejected(r) == pc[r] = "threw" /\ alloc[r] = "refused"

\* C38: a processUserRequest call rejected for insufficient resources has
\* created its agent: after the rejection the Orchestrator's active-agent map
\* and the God Node's activeAgents counter are larger than they were before
\* the call, and the agent's id is still registered.
C38_RejectedRequestLeavesAgent ==
  \A r \in Requests :
    Rejected(r)
      => /\ agent[r].exists
         /\ activeAgents[agent[r].id] # NoCapableAgent
         /\ metrics.activeAgents > seen[r].activeAgents
         /\ ActiveAgentCount(activeAgents) > seen[r].agents

----------------------------------------------------------------------------
(* The status of a runtime during processConversation, checked under        *)
(* SpecAgent                                                                *)

\* the processConversation call has neither returned nor thrown
ConversationPending(c) ==
  acall[c].op = "processConversation" /\ acall[c].pc \notin {"returned", "threw"}

\* C39: while a processConversation call on an agent has neither returned nor
\* thrown, the agent's status is never idle, with a single call and with two
\* conversations overlapping on the agent.
C39_NeverIdleWhileConversationPending ==
  \A c \in Calls : ConversationPending(c) => runtime.status # "idle"

----------------------------------------------------------------------------
(* The Orchestrator's active-task map, checked under SpecOrch *)

\* the size of the active-task map (getActiveTasks().size)
ActiveTaskCount(active) == Cardinality({id \in TaskIds : active[id] # NoTask})

\* over a step the active-task map loses no key
KeepsEveryKey == \A id \in TaskIds : activeTasks[id] # NoTask => activeTasks'[id] # NoTask

\* C40: a task is added to the Orchestrator's active-task map when executeTask
\* starts and is never removed: once executeTask has started on it, and after
\* it has completed or failed, the map holds the task under its id, and the
\* size of the map never decreases over any sequence of executeTask,
\* createAgent and destroyAgent calls.
C40_TasksStayInActiveTaskMap ==
  [][/\ \A t \in Tasks : tpc'[t] # "idle" => activeTasks'[tid'[t]] = t
     /\ KeepsEveryKey
     /\ ActiveTaskCount(activeTasks') >= ActiveTaskCount(activeTasks)]_vars

====
